---- MODULE Spec2Model ----
(***************************************************************************)
(* A model of gocopilot's conversation core: the bounded Memory            *)
(* (internal/agent/memory.go) and the concurrent ToolExecutor              *)
(* (internal/agent/executor.go).                                           *)
(*                                                                         *)
(* Go slices are modelled with their backing arrays: `heap` maps an array  *)
(* identity to the array's cells and a slice is [arr, len] over such an    *)
(* array (its capacity is the array's length).  This keeps visible which   *)
(* slices share storage, so that a caller writing into a slice it holds    *)
(* can be observed to change Memory or not.                                *)
(***************************************************************************)
EXTENDS Integers, Sequences, FiniteSets, TLC

(* ------------------------------ bounds ---------------------------------- *)
MaxBatch == 2      \* longest slice a caller passes to SetSystemMessages / AppendMany
MaxCap == 2        \* largest maxHistory given to NewMemory / TrimTo
MaxMsgs == 5       \* messages the caller creates in one run
NumArr == 7        \* backing arrays alive at one time
NumThreads == 2    \* goroutines calling one Memory concurrently
MaxCalls == 2      \* longest batch of tool calls given to ExecuteToolCalls
MaxWorkers == 1    \* largest worker limit given to NewToolExecutor
MaxMemCap == 2     \* largest capacity of the agent's Memory (0: unbounded)
MaxToolCalls == 3  \* tool calls the inference client asks for in one Run
MaxReads == 2      \* user inputs read in one Run
MaxSteps == 2      \* largest step cap given to NewReasoningChain
MaxRegs == 2       \* Register calls made, and longest list of definitions given to NewAgent
MaxStr == 1        \* longest old_str and new_str given to EditFile
MaxFile == 2       \* longest file content
MaxExecs == 2      \* Execute calls made on one ReasoningChain

Zero == 0          \* the zero value of a message cell
Scribble == 0 - 1  \* what a caller writes over a cell: a value no message carries
ArrIds == 1..NumArr
Threads == 1..NumThreads
Caps == (0 - 1)..MaxCap

Min(a, b) == IF a <= b THEN a ELSE b

LastN(s, n) == IF Len(s) <= n THEN s ELSE SubSeq(s, Len(s) - n + 1, Len(s))

(* ------------------------------ slices ---------------------------------- *)
NilSlice == [arr |-> 0, len |-> 0]

Elems(hp, s) == IF s.arr = 0 THEN <<>> ELSE SubSeq(hp[s.arr], 1, s.len)

AllocId(used) ==
    CHOOSE a \in ArrIds : a \notin used /\ \A b \in ArrIds \ used : a <= b

\* make([]T, n): a new array of n zero cells and the slice over it.
make(hp, used, n) ==
    LET a == AllocId(used)
    IN  [heap |-> [hp EXCEPT ![a] = [i \in 1..n |-> Zero]],
         slice |-> [arr |-> a, len |-> n]]

\* copy(dst[off:], src): min(len(dst) - off, len(src)) cells are copied.
copy(hp, dst, off, src) ==
    LET n == Min(dst.len - off, src.len)
    IN  IF n <= 0 THEN hp
        ELSE [hp EXCEPT ![dst.arr] =
                 [i \in 1..Len(@) |-> IF i > off /\ i <= off + n
                                      THEN hp[src.arr][i - off] ELSE @[i]]]

\* The capacities the runtime may give a slice grown to n elements: an exact fit
\* or room to spare.
GrowCaps(n) == {n, 2 * n}

\* The capacities append(s, k elements...) may leave the slice with: the present
\* one when the elements fit, else those of a new array.
NewCaps(hp, s, k) ==
    IF s.arr # 0 /\ s.len + k <= Len(hp[s.arr]) THEN {Len(hp[s.arr])}
    ELSE GrowCaps(s.len + k)

\* append(s, elems...): in place when the capacity allows it, else into a new
\* array of the capacity newcap the runtime chose.
goAppend(hp, used, s, elems, newcap) ==
    LET k == Len(elems)
        n == s.len + k
    IN  IF k = 0 THEN [heap |-> hp, slice |-> s]
        ELSE IF s.arr # 0 /\ n <= Len(hp[s.arr])
        THEN [heap |-> [hp EXCEPT ![s.arr] =
                           [i \in 1..Len(@) |-> IF i > s.len /\ i <= n
                                                THEN elems[i - s.len] ELSE @[i]]],
              slice |-> [arr |-> s.arr, len |-> n]]
        ELSE LET a == AllocId(used)
             IN  [heap |-> [hp EXCEPT ![a] =
                               [i \in 1..newcap |->
                                   IF i <= s.len THEN hp[s.arr][i]
                                   ELSE IF i <= n THEN elems[i - s.len]
                                   ELSE Zero]],
                  slice |-> [arr |-> a, len |-> n]]

\* Array identities are arbitrary: rename the arrays by the order in which the
\* slices of ss first name them and drop the arrays no slice names.
RECURSIVE FirstUses(_, _)
FirstUses(ss, seen) ==
    IF ss = <<>> THEN <<>>
    ELSE IF Head(ss).arr = 0 \/ Head(ss).arr \in seen
    THEN FirstUses(Tail(ss), seen)
    ELSE <<Head(ss).arr>> \o FirstUses(Tail(ss), seen \cup {Head(ss).arr})

Canon(hp, ss) ==
    LET ord == FirstUses(ss, {})
        rank(a) == CHOOSE i \in 1..Len(ord) : ord[i] = a
    IN  [heap |-> [b \in ArrIds |-> IF b <= Len(ord) THEN hp[ord[b]] ELSE <<>>],
         slices |-> [i \in 1..Len(ss) |->
                      IF ss[i].arr = 0 THEN ss[i]
                      ELSE [arr |-> rank(ss[i].arr), len |-> ss[i].len]]]

(* ------------------------------ Memory ---------------------------------- *)
VARIABLES
    heap,        \* backing arrays
    m,           \* the Memory: system, history (slices) and maxHistory
    held,        \* the slice the caller still holds: the one it passed to the last
                 \* SetSystemMessages / AppendMany, or the one Context() returned
    lastOp,      \* the operation that produced this state: NewMemory, ResetHistory,
                 \* Context, CallerOverwrite, or mutation for the other mutators
    snap,        \* value of the last Context() result while Memory is unmutated
    prevSnap,    \* in the state after Context(): snap before that call
    log,         \* messages appended since construction, while fresh
    fresh,       \* only appends and reads happened since construction
    next         \* the next message the caller creates

\* One Memory used by several goroutines at once.
VARIABLES
    pc,          \* per goroutine: where it is in the call it is making
    loc,         \* per goroutine: the call (op, msg, arg, max) and its locals (out, total)
    mu,          \* the RWMutex: the goroutine holding Lock (0: none), those holding RLock
    ser          \* the Memory contents after the calls that have completed, in lock order

memVars == <<heap, m, held, lastOp, snap, prevSnap, log, fresh, next>>
seqVars == <<held, lastOp, snap, prevSnap, log, fresh, next>>
concVars == <<pc, loc, mu, ser>>

NoSnap == <<Zero>>

System == Elems(heap, m.system)
History == Elems(heap, m.history)

NewMemory(maxHistory) ==
    [system |-> NilSlice, history |-> NilSlice,
     maxHistory |-> IF maxHistory > 0 THEN maxHistory ELSE 0]

\* Faulty variant: the caller's slice is stored without a copy.
SetSystemMessagesBody_Alias(hp, mm, used, messages) ==
    [heap |-> hp, m |-> [mm EXCEPT !.system = messages]]

\* m.system = make(..., len(messages)); copy(m.system, messages), or nil.
SetSystemMessagesBody(hp, mm, used, messages) ==
    IF messages.len = 0
    THEN [heap |-> hp, m |-> [mm EXCEPT !.system = NilSlice]]
    ELSE LET mk == make(hp, used, messages.len)
         IN  [heap |-> copy(mk.heap, mk.slice, 0, messages),
              m |-> [mm EXCEPT !.system = mk.slice]]

\* m.history = append(m.history, ...)
appendHistory(hp, mm, used, elems, newcap) ==
    LET r == goAppend(hp, used, mm.history, elems, newcap)
    IN  [heap |-> r.heap, m |-> [mm EXCEPT !.history = r.slice]]

\* Faulty variant: the bound is never enforced.
trimLocked_Never(hp, mm, used) == [heap |-> hp, m |-> mm]

\* Faulty variant: the oldest messages are kept instead of the newest.
trimLocked_Oldest(hp, mm, used) ==
    IF mm.maxHistory <= 0 \/ mm.history.len <= mm.maxHistory
    THEN [heap |-> hp, m |-> mm]
    ELSE [heap |-> hp, m |-> [mm EXCEPT !.history.len = mm.maxHistory]]

\* Faulty variant: a bound that is not positive is a bound of no message.
trimLocked_ZeroBound(hp, mm, used) ==
    IF mm.maxHistory <= 0 THEN [heap |-> hp, m |-> [mm EXCEPT !.history = NilSlice]]
    ELSE IF mm.history.len <= mm.maxHistory THEN [heap |-> hp, m |-> mm]
    ELSE LET h == Elems(hp, mm.history)
             keep == SubSeq(h, Len(h) - mm.maxHistory + 1, Len(h))
             r == goAppend(hp, used, NilSlice, keep, Len(keep))
         IN  [heap |-> r.heap, m |-> [mm EXCEPT !.history = r.slice]]

trimLocked(hp, mm, used) ==
    IF mm.maxHistory <= 0 THEN [heap |-> hp, m |-> mm]
    ELSE IF mm.history.len <= mm.maxHistory THEN [heap |-> hp, m |-> mm]
    ELSE LET h == Elems(hp, mm.history)
             keep == SubSeq(h, Len(h) - mm.maxHistory + 1, Len(h))
             r == goAppend(hp, used, NilSlice, keep, Len(keep))
         IN  [heap |-> r.heap, m |-> [mm EXCEPT !.history = r.slice]]

\* Faulty variant: the system prefix is cleared with the history.
ResetHistoryBody_All(mm) == [mm EXCEPT !.history = NilSlice, !.system = NilSlice]

\* m.history = nil
ResetHistoryBody(mm) == [mm EXCEPT !.history = NilSlice]

\* Faulty variant: the history is copied to the front of the result.
ContextBody_Front(hp, mm, used) ==
    LET total == mm.system.len + mm.history.len
    IN  IF total = 0 THEN [heap |-> hp, slice |-> NilSlice]
        ELSE LET mk == make(hp, used, total)
                 h1 == copy(mk.heap, mk.slice, 0, mm.system)
                 h2 == copy(h1, mk.slice, 0, mm.history)
             IN  [heap |-> h2, slice |-> mk.slice]

\* Context(): nil when both parts are empty, else a new array filled by two copies.
ContextBody(hp, mm, used) ==
    LET total == mm.system.len + mm.history.len
    IN  IF total = 0 THEN [heap |-> hp, slice |-> NilSlice]
        ELSE LET mk == make(hp, used, total)
                 h1 == copy(mk.heap, mk.slice, 0, mm.system)
                 h2 == copy(h1, mk.slice, mm.system.len, mm.history)
             IN  [heap |-> h2, slice |-> mk.slice]

Used(mm, ss) == ({mm.system.arr, mm.history.arr} \cup {ss[i].arr : i \in 1..Len(ss)}) \ {0}

\* The caller's slice holding msgs, made before the call.
CallerSlice(hp, used, msgs) == goAppend(hp, used, NilSlice, msgs, Len(msgs))

\* The state after an operation: arrays renamed, garbage dropped.  An array that
\* Memory cannot reach is the caller's own data, which Memory never reads again:
\* neither its cells nor its length are tracked, it is kept as one zero cell.
Settle(hp, mm, h) ==
    LET c == Canon(hp, <<mm.system, mm.history, h>>)
        mine == {c.slices[1].arr, c.slices[2].arr}
        hc == c.slices[3]
    IN  /\ heap' = [b \in ArrIds |->
                      IF b \in mine \/ c.heap[b] = <<>> THEN c.heap[b] ELSE <<Zero>>]
        /\ m' = [mm EXCEPT !.system = c.slices[1], !.history = c.slices[2]]
        /\ held' = IF hc.arr = 0 \/ hc.arr \in mine THEN hc
                   ELSE [arr |-> hc.arr, len |-> 1]

\* Memory never looks into a message, so every message the caller creates is
\* given a value of its own: the k messages created next.
NewMsgs(k) == [i \in 1..k |-> next + i - 1]

CanCreate(k) == next + k - 1 <= MaxMsgs

IdleLoc == [op |-> "none", msg |-> Zero, arg |-> NilSlice, max |-> 0,
            out |-> NilSlice, total |-> 0]

SeqIdle ==
    /\ held = NilSlice
    /\ lastOp = "NewMemory"
    /\ snap = NoSnap
    /\ prevSnap = NoSnap
    /\ log = <<>>
    /\ fresh = TRUE
    /\ next = 1

ConcIdle ==
    /\ pc = [t \in Threads |-> "idle"]
    /\ loc = [t \in Threads |-> IdleLoc]
    /\ mu = [writer |-> 0, readers |-> {}]
    /\ ser = [system |-> <<>>, history |-> <<>>]

MemInit ==
    /\ heap = [a \in ArrIds |-> <<>>]
    /\ \E c \in Caps : m = NewMemory(c)
    /\ held = NilSlice
    /\ lastOp = "NewMemory"
    /\ snap = NoSnap
    /\ prevSnap = NoSnap
    /\ log = <<>>
    /\ fresh = TRUE
    /\ next = 1

SetSystemMessages ==
    \E k \in 0..MaxBatch :
        /\ CanCreate(k)
        /\ LET a == CallerSlice(heap, Used(m, <<>>), NewMsgs(k))
               r == SetSystemMessagesBody(a.heap, m, Used(m, <<a.slice>>), a.slice)
           IN  Settle(r.heap, r.m, a.slice)
        /\ lastOp' = "mutation"
        /\ snap' = NoSnap /\ prevSnap' = NoSnap
        /\ next' = next + k
        /\ UNCHANGED <<log, fresh>>

MemoryAppend ==
    \E newcap \in NewCaps(heap, m.history, 1) :
        /\ CanCreate(1)
        /\ LET used == Used(m, <<held>>)
               r == appendHistory(heap, m, used, NewMsgs(1), newcap)
               t == trimLocked(r.heap, r.m, used \cup {r.m.history.arr})
           IN  Settle(t.heap, t.m, held)
        /\ lastOp' = "mutation"
        /\ snap' = NoSnap /\ prevSnap' = NoSnap
        /\ log' = IF fresh THEN log \o NewMsgs(1) ELSE log
        /\ next' = next + 1
        /\ UNCHANGED fresh

AppendMany ==
    \E k \in 0..MaxBatch : \E newcap \in NewCaps(heap, m.history, k) :
        /\ CanCreate(k)
        /\ LET a == CallerSlice(heap, Used(m, <<>>), NewMsgs(k))
               used == Used(m, <<a.slice>>)
           IN  IF a.slice.len = 0
               THEN Settle(a.heap, m, a.slice)
               ELSE LET r == appendHistory(a.heap, m, used, Elems(a.heap, a.slice), newcap)
                        t == trimLocked(r.heap, r.m, used \cup {r.m.history.arr})
                    IN  Settle(t.heap, t.m, a.slice)
        /\ lastOp' = "mutation"
        /\ snap' = IF k = 0 THEN snap ELSE NoSnap
        /\ prevSnap' = NoSnap
        /\ log' = IF fresh THEN log \o NewMsgs(k) ELSE log
        /\ next' = next + k
        /\ UNCHANGED fresh

TrimTo ==
    \E c \in Caps :
        /\ LET t == trimLocked(heap, [m EXCEPT !.maxHistory = c], Used(m, <<held>>))
           IN  Settle(t.heap, t.m, held)
        /\ lastOp' = "mutation"
        /\ snap' = NoSnap /\ prevSnap' = NoSnap
        /\ log' = <<>> /\ fresh' = FALSE
        /\ UNCHANGED next

ResetHistory ==
    /\ Settle(heap, ResetHistoryBody(m), held)
    /\ lastOp' = "ResetHistory"
    /\ snap' = NoSnap /\ prevSnap' = NoSnap
    /\ log' = <<>> /\ fresh' = FALSE
    /\ UNCHANGED next

Context ==
    /\ LET r == ContextBody(heap, m, Used(m, <<>>))
       IN  /\ Settle(r.heap, m, r.slice)
           /\ snap' = Elems(r.heap, r.slice)
    /\ lastOp' = "Context"
    /\ prevSnap' = snap
    /\ UNCHANGED <<log, fresh, next>>

\* The caller overwrites one element of the slice it holds.
CallerOverwrite ==
    \E i \in 1..held.len :
        /\ heap[held.arr][i] # Scribble
        /\ Settle([heap EXCEPT ![held.arr][i] = Scribble], m, held)
        /\ lastOp' = "CallerOverwrite"
        /\ prevSnap' = NoSnap
        /\ UNCHANGED <<snap, log, fresh, next>>

(* ------------------- Memory under concurrent callers -------------------- *)
\* Every call is split at its statements: taking the lock, each statement under it
\* and releasing it are steps of their own.
BatchOf(t) == <<t, t + NumThreads>>

ConcRoots(mm, lc) ==
    <<mm.system, mm.history>> \o
    [i \in 1..(2 * NumThreads) |->
        IF i % 2 = 1 THEN lc[(i + 1) \div 2].arg ELSE lc[i \div 2].out]

ConcUsed(mm, lc) ==
    LET r == ConcRoots(mm, lc) IN {r[i].arr : i \in 1..Len(r)} \ {0}

ConcSettle(hp, mm, lc) ==
    LET c == Canon(hp, ConcRoots(mm, lc))
    IN  /\ heap' = c.heap
        /\ m' = [mm EXCEPT !.system = c.slices[1], !.history = c.slices[2]]
        /\ loc' = [t \in Threads |->
                     [lc[t] EXCEPT !.arg = c.slices[2 * t + 1],
                                   !.out = c.slices[2 * t + 2]]]

Writers == {"Append", "AppendMany", "TrimTo", "ResetHistory", "SetSystemMessages"}
Readers == {"Context", "MessageCount"}

\* Faulty variant: Lock() never waits.
CanLock_Never == TRUE

\* m.mu.Lock() returns once no goroutine holds the lock in either mode.
CanLock == mu.writer = 0 /\ mu.readers = {}

\* m.mu.RLock() returns once no goroutine holds the write lock.
CanRLock == mu.writer = 0

FirstStmt(op) ==
    CASE op = "Append" -> "append"
      [] op = "AppendMany" -> "append"
      [] op = "TrimTo" -> "setmax"
      [] op = "ResetHistory" -> "reset"
      [] op = "SetSystemMessages" -> "setsys"
      [] op = "Context" -> "total"
      [] op = "MessageCount" -> "count"

ConcInit ==
    /\ heap = [a \in ArrIds |-> <<>>]
    /\ \E c \in 1..MaxCap : m = NewMemory(c)
    /\ ConcIdle

\* What a goroutine may call: the operation, the slice and the bound it passes.
Calls(t, ops) ==
    {[op |-> op, msgs |-> msgs, max |-> c] :
        op \in ops, msgs \in {<<>>, <<t>>, BatchOf(t)}, c \in 0..MaxCap}
    \ {cl \in [op : ops, msgs : {<<>>, <<t>>, BatchOf(t)}, max : 0..MaxCap] :
          \/ cl.op = "AppendMany" /\ cl.msgs # BatchOf(t)
          \/ cl.op = "SetSystemMessages" /\ cl.msgs = BatchOf(t)
          \/ cl.op \notin {"AppendMany", "SetSystemMessages"} /\ cl.msgs # <<>>
          \/ (cl.op = "TrimTo") # (cl.max > 0)}

\* The goroutine has entered the call cl: the slice it passes was made before.
Enter(t, cl) ==
    LET a == CallerSlice(heap, ConcUsed(m, loc), cl.msgs)
    IN  /\ ConcSettle(a.heap, m,
               [loc EXCEPT ![t] = [IdleLoc EXCEPT !.op = cl.op, !.msg = t,
                                                  !.arg = a.slice, !.max = cl.max]])
        /\ pc' = [pc EXCEPT ![t] = FirstStmt(cl.op)]

\* AppendMany: if len(messages) == 0 { return }, before the lock is taken.
CheckEmpty(t) ==
    /\ pc[t] = "idle"
    /\ UNCHANGED <<heap, m, pc, loc, mu, ser>>

\* A goroutine calls a mutator and its m.mu.Lock() returns.  Which call a
\* goroutine makes does not depend on the state, so a goroutine waiting in Lock()
\* is not told apart from one that has yet to call.
Lock(t) ==
    /\ pc[t] = "idle"
    /\ CanLock
    /\ \E cl \in Calls(t, Writers) : Enter(t, cl)
    /\ mu' = [mu EXCEPT !.writer = t]
    /\ UNCHANGED ser

\* A goroutine calls a reader and its m.mu.RLock() returns.
RLock(t) ==
    /\ pc[t] = "idle"
    /\ CanRLock
    /\ \E cl \in Calls(t, Readers) : Enter(t, cl)
    /\ mu' = [mu EXCEPT !.readers = @ \cup {t}]
    /\ UNCHANGED ser

\* m.history = append(m.history, message) / append(m.history, messages...)
StmtAppend(t) ==
    /\ pc[t] = "append"
    /\ LET elems == IF loc[t].op = "Append" THEN <<loc[t].msg>>
                    ELSE Elems(heap, loc[t].arg)
       IN  \E newcap \in NewCaps(heap, m.history, Len(elems)) :
              LET r == appendHistory(heap, m, ConcUsed(m, loc), elems, newcap)
              IN  ConcSettle(r.heap, r.m, loc)
    /\ pc' = [pc EXCEPT ![t] = "trim"]
    /\ UNCHANGED <<mu, ser>>

\* TrimTo: m.maxHistory = maxHistory
StmtSetMax(t) ==
    /\ pc[t] = "setmax"
    /\ m' = [m EXCEPT !.maxHistory = loc[t].max]
    /\ pc' = [pc EXCEPT ![t] = "trim"]
    /\ UNCHANGED <<heap, loc, mu, ser>>

\* m.trimLocked()
StmtTrim(t) ==
    /\ pc[t] = "trim"
    /\ LET r == trimLocked(heap, m, ConcUsed(m, loc))
       IN  ConcSettle(r.heap, r.m, loc)
    /\ pc' = [pc EXCEPT ![t] = "Unlock"]
    /\ UNCHANGED <<mu, ser>>

StmtReset(t) ==
    /\ pc[t] = "reset"
    /\ ConcSettle(heap, ResetHistoryBody(m), loc)
    /\ pc' = [pc EXCEPT ![t] = "Unlock"]
    /\ UNCHANGED <<mu, ser>>

\* if len(messages) == 0 { m.system = nil; return }; m.system = make(...)
StmtSetSys(t) ==
    /\ pc[t] = "setsys"
    /\ IF loc[t].arg.len = 0
       THEN /\ ConcSettle(heap, [m EXCEPT !.system = NilSlice], loc)
            /\ pc' = [pc EXCEPT ![t] = "Unlock"]
       ELSE /\ LET mk == make(heap, ConcUsed(m, loc), loc[t].arg.len)
               IN  ConcSettle(mk.heap, [m EXCEPT !.system = mk.slice], loc)
            /\ pc' = [pc EXCEPT ![t] = "copy"]
    /\ UNCHANGED <<mu, ser>>

\* copy(m.system, messages)
StmtSetSysCopy(t) ==
    /\ pc[t] = "copy"
    /\ ConcSettle(copy(heap, m.system, 0, loc[t].arg), m, loc)
    /\ pc' = [pc EXCEPT ![t] = "Unlock"]
    /\ UNCHANGED <<mu, ser>>

\* total := len(m.system) + len(m.history); if total == 0 { return nil }
StmtTotal(t) ==
    /\ pc[t] = "total"
    /\ LET total == m.system.len + m.history.len
       IN  /\ loc' = [loc EXCEPT ![t].total = total]
           /\ pc' = [pc EXCEPT ![t] = IF total = 0 THEN "RUnlock" ELSE "make"]
    /\ UNCHANGED <<heap, m, mu, ser>>

\* out := make(..., total)
StmtMake(t) ==
    /\ pc[t] = "make"
    /\ LET mk == make(heap, ConcUsed(m, loc), loc[t].total)
       IN  ConcSettle(mk.heap, m, [loc EXCEPT ![t].out = mk.slice])
    /\ pc' = [pc EXCEPT ![t] = "copy1"]
    /\ UNCHANGED <<mu, ser>>

\* copy(out, m.system)
StmtCopy1(t) ==
    /\ pc[t] = "copy1"
    /\ ConcSettle(copy(heap, loc[t].out, 0, m.system), m, loc)
    /\ pc' = [pc EXCEPT ![t] = "copy2"]
    /\ UNCHANGED <<mu, ser>>

\* copy(out[len(m.system):], m.history); return out
StmtCopy2(t) ==
    /\ pc[t] = "copy2"
    /\ ConcSettle(copy(heap, loc[t].out, m.system.len, m.history), m, loc)
    /\ pc' = [pc EXCEPT ![t] = "RUnlock"]
    /\ UNCHANGED <<mu, ser>>

\* return len(m.system) + len(m.history)
StmtCount(t) ==
    /\ pc[t] = "count"
    /\ loc' = [loc EXCEPT ![t].total = m.system.len + m.history.len]
    /\ pc' = [pc EXCEPT ![t] = "RUnlock"]
    /\ UNCHANGED <<heap, m, mu, ser>>

\* The effect of a whole call on the contents, were it to run alone.
SerialEffect(sr, max, l, msgs) ==
    CASE l.op = "Append" ->
            [sr EXCEPT !.history = IF max > 0 THEN LastN(Append(@, l.msg), max)
                                   ELSE Append(@, l.msg)]
      [] l.op = "AppendMany" ->
            [sr EXCEPT !.history = IF max > 0 THEN LastN(@ \o msgs, max) ELSE @ \o msgs]
      [] l.op = "TrimTo" -> [sr EXCEPT !.history = IF max > 0 THEN LastN(@, max) ELSE @]
      [] l.op = "ResetHistory" -> [sr EXCEPT !.history = <<>>]
      [] l.op = "SetSystemMessages" -> [sr EXCEPT !.system = msgs]

\* The deferred m.mu.Unlock(): the call returns.
Unlock(t) ==
    /\ pc[t] = "Unlock"
    /\ mu' = [mu EXCEPT !.writer = IF @ = t THEN 0 ELSE @]
    /\ ser' = SerialEffect(ser, m.maxHistory, loc[t], Elems(heap, loc[t].arg))
    /\ ConcSettle(heap, m, [loc EXCEPT ![t] = IdleLoc])
    /\ pc' = [pc EXCEPT ![t] = "idle"]

\* The deferred m.mu.RUnlock(): the call returns its result.
RUnlock(t) ==
    /\ pc[t] = "RUnlock"
    /\ mu' = [mu EXCEPT !.readers = @ \ {t}]
    /\ ConcSettle(heap, m, [loc EXCEPT ![t] = IdleLoc])
    /\ pc' = [pc EXCEPT ![t] = "idle"]
    /\ UNCHANGED ser

(* ----------------------------- ToolExecutor ----------------------------- *)
VARIABLES
    toolCalls,   \* the batch: per call its kind, id and tool name
    maxWorkers,  \* e.maxWorkers
    results,     \* the positional results slice
    written,     \* the result slots that have been assigned
    semaphore,   \* number of tokens in the semaphore channel
    wg,          \* the WaitGroup counter
    epc,         \* where ExecuteToolCalls is: start, loop, wait, convert, returned
    idx,         \* the dispatch loop's index
    upc,         \* per call: where its goroutine is (none: no goroutine)
    cancelled,   \* ctx.Done() is closed
    lastDone,    \* the goroutine that assigned its result last (0: none yet)
    invoked,     \* the calls whose tool body (registry.ExecuteTool) was entered
    messages,    \* the returned tool messages
    retErr       \* the returned error

execVars == <<toolCalls, maxWorkers, results, written, semaphore, wg, epc, idx, upc,
              cancelled, lastDone, invoked, messages, retErr>>

EmptyID == 0           \* the empty call id ""
DefaultWorkers == 5

Kinds == {"function", "custom", "other"}
ToolNames == {"ok", "fail", "missing"}

\* The registry: the registered names and what each tool's function returns.
Registry == [ok |-> [Output |-> "done", Error |-> "nil"],
             fail |-> [Output |-> "", Error |-> "tool failed"]]

\* A function call names any tool; a custom call carries Custom.Name; any other
\* variant carries only its id.
CallShapes(i) ==
    {[kind |-> k, id |-> d, name |-> n] :
        k \in Kinds, d \in {EmptyID, i}, n \in ToolNames}
    \ {c \in [kind : Kinds, id : {EmptyID, i}, name : ToolNames] :
          c.kind # "function" /\ c.name # "ok"}

RECURSIVE Batches(_)
Batches(k) ==
    IF k = 0 THEN {<<>>}
    ELSE {Append(b, c) : b \in Batches(k - 1), c \in CallShapes(k)}

ZeroResult == [Output |-> "", Error |-> "nil", CallID |-> EmptyID]

NewToolExecutor(mw) == IF mw <= 0 THEN DefaultWorkers ELSE mw

\* Registry.ExecuteTool: the tool's own result, or the not-found error.
ExecuteTool(name) ==
    IF name \in DOMAIN Registry
    THEN Registry[name]
    ELSE [Output |-> "", Error |-> "tool not found"]

ToolMessage(content, id) == [role |-> "tool", content |-> content, id |-> id]

\* content: "Error: " followed by the error text, or the output.
Content(r) ==
    IF r.Error # "nil" THEN <<"Error: ", r.Error>> ELSE <<r.Output>>

\* Faulty variant: the messages are built from the last result to the first.
ToMessages_Reversed(rs) ==
    LET kept == SelectSeq(rs, LAMBDA r : r.CallID # EmptyID)
    IN  [i \in 1..Len(kept) |->
            ToolMessage(Content(kept[Len(kept) + 1 - i]), kept[Len(kept) + 1 - i].CallID)]

\* The conversion loop: results with an empty CallID are skipped.
ToMessages(rs) ==
    LET kept == SelectSeq(rs, LAMBDA r : r.CallID # EmptyID)
    IN  [i \in 1..Len(kept) |-> ToolMessage(Content(kept[i]), kept[i].CallID)]

\* Faulty variant: the send never blocks.
CanAcquire_Always == TRUE

\* semaphore <- struct{}{} completes while the channel's buffer has room.
CanAcquire == semaphore < maxWorkers

\* Faulty variant: Wait() does not wait.
WaitReturns_Early == TRUE

\* wg.Wait() returns when the counter is zero.
WaitReturns == wg = 0

\* Faulty variant: the context's error is returned.
ReturnedError_Context == IF cancelled THEN "context canceled" ELSE "nil"

\* return nil, nil / return messages, nil
ReturnedError == "nil"

ExecIdle ==
    /\ toolCalls = <<>>
    /\ maxWorkers = 0
    /\ results = <<>>
    /\ written = {}
    /\ semaphore = 0
    /\ wg = 0
    /\ epc = "start"
    /\ idx = 0
    /\ upc = <<>>
    /\ cancelled = FALSE
    /\ lastDone = 0
    /\ invoked = {}
    /\ messages = <<>>
    /\ retErr = "none"

ExecInit ==
    /\ \E k \in 0..MaxCalls : toolCalls \in Batches(k)
    /\ \E mw \in 0..MaxWorkers : maxWorkers = NewToolExecutor(mw)
    /\ results = <<>>
    /\ written = {}
    /\ semaphore = 0
    /\ wg = 0
    /\ epc = "start"
    /\ idx = 0
    /\ upc = [i \in 1..Len(toolCalls) |-> "none"]
    /\ cancelled = FALSE
    /\ lastDone = 0
    /\ invoked = {}
    /\ messages = <<>>
    /\ retErr = "none"

\* if len(toolCalls) == 0 { return nil, nil }; results := make(...)
Start ==
    /\ epc = "start"
    /\ IF Len(toolCalls) = 0
       THEN /\ epc' = "returned"
            /\ retErr' = ReturnedError
            /\ UNCHANGED <<results, idx>>
       ELSE /\ epc' = "loop"
            /\ results' = [i \in 1..Len(toolCalls) |-> ZeroResult]
            /\ idx' = 1
            /\ UNCHANGED retErr
    /\ UNCHANGED <<toolCalls, maxWorkers, written, semaphore, wg, upc, cancelled,
                   lastDone, invoked, messages>>

LoopAdvance ==
    /\ idx' = idx + 1
    /\ epc' = IF idx = Len(toolCalls) THEN "wait" ELSE "loop"

\* case ChatCompletionMessageFunctionToolCall: wg.Add(1); go func(...)
DispatchFunction ==
    /\ epc = "loop"
    /\ toolCalls[idx].kind = "function"
    /\ wg' = wg + 1
    /\ upc' = [upc EXCEPT ![idx] = "acquire"]
    /\ LoopAdvance
    /\ UNCHANGED <<toolCalls, maxWorkers, results, written, semaphore, cancelled,
                   lastDone, invoked, messages, retErr>>

\* case ChatCompletionMessageCustomToolCall: the error result is written in place.
DispatchCustom ==
    /\ epc = "loop"
    /\ toolCalls[idx].kind = "custom"
    /\ results' = [results EXCEPT ![idx] =
                      [Output |-> "unsupported custom tool call",
                       Error |-> "unsupported custom tool call",
                       CallID |-> toolCalls[idx].id]]
    /\ written' = written \cup {idx}
    /\ LoopAdvance
    /\ UNCHANGED <<toolCalls, maxWorkers, semaphore, wg, upc, cancelled, lastDone, invoked,
                   messages, retErr>>

\* default: the error result is written in place.
DispatchOther ==
    /\ epc = "loop"
    /\ toolCalls[idx].kind = "other"
    /\ results' = [results EXCEPT ![idx] =
                      [Output |-> "unsupported tool call type",
                       Error |-> "unsupported tool call type",
                       CallID |-> toolCalls[idx].id]]
    /\ written' = written \cup {idx}
    /\ LoopAdvance
    /\ UNCHANGED <<toolCalls, maxWorkers, semaphore, wg, upc, cancelled, lastDone, invoked,
                   messages, retErr>>

\* semaphore <- struct{}{}
Acquire(i) ==
    /\ upc[i] = "acquire"
    /\ CanAcquire
    /\ semaphore' = semaphore + 1
    /\ upc' = [upc EXCEPT ![i] = "check"]
    /\ UNCHANGED <<toolCalls, maxWorkers, results, written, wg, epc, idx, cancelled,
                   lastDone, invoked, messages, retErr>>

\* Faulty variant: the cancelled goroutine leaves its slot as it was.
CancelledResult_Lost(i) == results[i]

\* The result a goroutine records when it finds ctx.Done() closed.
CancelledResult(i) ==
    [Output |-> "tool execution cancelled",
     Error |-> "context canceled",
     CallID |-> toolCalls[i].id]

\* select { case <-ctx.Done(): results[index] = cancelled; return }
CheckCancelled(i) ==
    /\ upc[i] = "check"
    /\ cancelled
    /\ results' = [results EXCEPT ![i] = CancelledResult(i)]
    /\ written' = written \cup {i}
    /\ lastDone' = i
    /\ UNCHANGED invoked
    /\ upc' = [upc EXCEPT ![i] = "release"]
    /\ UNCHANGED <<toolCalls, maxWorkers, semaphore, wg, epc, idx, cancelled,
                   messages, retErr>>

\* select { default: }; e.registry.ExecuteTool(...) is entered
StartTool(i) ==
    /\ upc[i] = "check"
    /\ ~cancelled
    /\ upc' = [upc EXCEPT ![i] = "running"]
    /\ invoked' = invoked \cup {i}
    /\ UNCHANGED <<toolCalls, maxWorkers, results, written, semaphore, wg, epc, idx,
                   cancelled, lastDone, messages, retErr>>

\* ExecuteTool returns; results[index] = ToolResult{output, err, callID}
FinishTool(i) ==
    /\ upc[i] = "running"
    /\ LET r == ExecuteTool(toolCalls[i].name)
       IN  results' = [results EXCEPT ![i] =
                          [Output |-> r.Output, Error |-> r.Error,
                           CallID |-> toolCalls[i].id]]
    /\ written' = written \cup {i}
    /\ lastDone' = i
    /\ UNCHANGED invoked
    /\ upc' = [upc EXCEPT ![i] = "release"]
    /\ UNCHANGED <<toolCalls, maxWorkers, semaphore, wg, epc, idx, cancelled,
                   messages, retErr>>

\* Faulty variant: the goroutine goes on without giving its slot back.
Release_Kept(i) ==
    /\ upc[i] = "release"
    /\ upc' = [upc EXCEPT ![i] = "done"]
    /\ UNCHANGED <<toolCalls, maxWorkers, results, written, semaphore, wg, epc, idx,
                   cancelled, lastDone, invoked, messages, retErr>>

\* defer func() { <-semaphore }()
Release(i) ==
    /\ upc[i] = "release"
    /\ semaphore' = semaphore - 1
    /\ upc' = [upc EXCEPT ![i] = "done"]
    /\ UNCHANGED <<toolCalls, maxWorkers, results, written, wg, epc, idx, cancelled,
                   lastDone, invoked, messages, retErr>>

\* defer wg.Done()
Done(i) ==
    /\ upc[i] = "done"
    /\ wg' = wg - 1
    /\ upc' = [upc EXCEPT ![i] = "exited"]
    /\ UNCHANGED <<toolCalls, maxWorkers, results, written, semaphore, epc, idx,
                   cancelled, lastDone, invoked, messages, retErr>>

\* wg.Wait()
Wait ==
    /\ epc = "wait"
    /\ WaitReturns
    /\ epc' = "convert"
    /\ UNCHANGED <<toolCalls, maxWorkers, results, written, semaphore, wg, idx, upc,
                   cancelled, lastDone, invoked, messages, retErr>>

\* The conversion loop and return messages, nil.
Convert ==
    /\ epc = "convert"
    /\ messages' = ToMessages(results)
    /\ retErr' = ReturnedError
    /\ epc' = "returned"
    /\ UNCHANGED <<toolCalls, maxWorkers, results, written, semaphore, wg, idx, upc,
                   cancelled, lastDone, invoked>>

\* The caller's context is cancelled, at any moment.
Cancel ==
    /\ ~cancelled
    /\ epc # "returned"
    /\ cancelled' = TRUE
    /\ UNCHANGED <<toolCalls, maxWorkers, results, written, semaphore, wg, epc, idx,
                   upc, lastDone, invoked, messages, retErr>>

(* ------------------------------- Agent.Run ------------------------------ *)
\* The agent's Memory holds no system prefix (Run never sets one) and is used by
\* one goroutine: it is kept as the sequence of its history, which Append trims
\* to the last maxHistory messages.
VARIABLES
    userInput,   \* the last input getUserMessage() returned ("none": none yet)
    agent,       \* the Agent: toolParams, toolIndex and its memory's maxHistory
    history,     \* a.memory: the history
    rpc,         \* where Run is: start, input, call, infer, dispatch, wait, collect,
                 \* returned
    followup,    \* the inference call at hand is the one after tool results
    reply,       \* message.ToolCalls of the reply being processed
    ridx,        \* the dispatch loop's index
    rresults,    \* the positional results slice of the batch
    rwg,         \* the WaitGroup counter
    gpc,         \* per call of the batch: where its goroutine is (none: no goroutine)
    request,     \* the parameters of the last inference request
    inflight,    \* inference calls issued and not yet answered
    infers,      \* inference calls issued so far
    reads,       \* user inputs read so far
    received,    \* tool calls received so far
    batch,       \* tool messages appended since the reply being processed
    failed,      \* an inference call has returned an error
    runErr       \* what Run returned (none: it has not returned)

runVars == <<userInput, agent, history, rpc, followup, reply, ridx, rresults, rwg, gpc, request,
             inflight, infers, reads, received, batch, failed, runErr>>

UserMessage(n) == [role |-> "user", n |-> n]

\* message.ToParam(): the assistant reply with its tool calls.
AssistantMessage(calls, n) == [role |-> "assistant", calls |-> calls, n |-> n]

\* A reply's tool call: its variant, its id and the tool it names.
RunCallShapes(i) ==
    {[kind |-> "function", id |-> i, name |-> n] : n \in ToolNames}
    \cup {[kind |-> k, id |-> i, name |-> "ok"] : k \in {"custom", "other"}}

RECURSIVE RunBatches(_)
RunBatches(k) ==
    IF k = 0 THEN {<<>>}
    ELSE {Append(b, c) : b \in RunBatches(k - 1), c \in RunCallShapes(k)}

\* The tool definitions an agent is built with.
ToolDefs == {<<>>, <<"ok", "fail">>}

\* NewAgent: one tool parameter per definition, the index by name, a new Memory.
NewAgent(toolDefs, capacity) ==
    [toolParams |-> toolDefs,
     toolIndex |-> {toolDefs[i] : i \in 1..Len(toolDefs)},
     maxHistory |-> NewMemory(capacity).maxHistory]

\* Faulty variant: the message replaces what the history held.
MemoryAppended_Fresh(h, message) == <<message>>

\* a.memory.Append(message): append, then trimLocked.
MemoryAppended(h, message) ==
    LET h2 == Append(h, message)
    IN  IF agent.maxHistory > 0 THEN LastN(h2, agent.maxHistory) ELSE h2

RECURSIVE MemoryAppendedAll(_, _)
MemoryAppendedAll(h, msgs) ==
    IF msgs = <<>> THEN h
    ELSE MemoryAppendedAll(MemoryAppended(h, Head(msgs)), Tail(msgs))

\* Faulty variant: follow-up requests carry no tools.
InferenceParams_FirstOnly(conversation) ==
    [Messages |-> conversation,
     Tools |-> IF followup THEN <<>> ELSE agent.toolParams]

\* runInference: the request parameters.
InferenceParams(conversation) ==
    [Messages |-> conversation,
     Tools |-> IF Len(agent.toolParams) > 0 THEN agent.toolParams ELSE <<>>]

NoRequest == [Messages |-> <<>>, Tools |-> <<>>]

RunZeroResult == [output |-> "", err |-> "nil", id |-> EmptyID, handled |-> FALSE]

\* The text of a tool message: "Error: " and the error, or the output.
RunContent(res) ==
    IF res.err # "nil" THEN <<"Error: ", res.err>> ELSE <<res.output>>

\* Faulty variant: an empty input is sent like any other.
EmptyInputSkipped_Never == FALSE

\* if userInput == "" { continue }
EmptyInputSkipped == TRUE

\* Faulty variant: an inference error is followed by another attempt.
AfterInferenceError_Retry == "call"

\* if err != nil { return err }
AfterInferenceError == "returned"

\* Faulty variant: an unknown tool name is passed over in silence.
NotFoundMessages_None(tc) == <<>>

\* toolIndex has no such name: the error message appended in the dispatch loop.
NotFoundMessages(tc) == <<ToolMessage(<<"Error: ", "tool not found">>, tc.id)>>

\* Faulty variant: Wait() does not wait.
RunWaitReturns_Early == TRUE

\* wg.Wait() returns when the counter is zero.
RunWaitReturns == rwg = 0

RunIdle ==
    /\ agent = NewAgent(<<>>, 0)
    /\ history = <<>>
    /\ rpc = "start"
    /\ userInput = "none"
    /\ followup = FALSE
    /\ reply = <<>>
    /\ ridx = 0
    /\ rresults = <<>>
    /\ rwg = 0
    /\ gpc = <<>>
    /\ request = NoRequest
    /\ inflight = 0
    /\ infers = 0
    /\ reads = 0
    /\ received = 0
    /\ batch = <<>>
    /\ failed = FALSE
    /\ runErr = "none"

\* The agent as constructed; its memory may hold an earlier run's history.
RunInit ==
    /\ \E toolDefs \in ToolDefs, capacity \in 0..MaxMemCap :
          agent = NewAgent(toolDefs, capacity)
    /\ history \in {<<>>, <<UserMessage(0)>>}
    /\ rpc = "start"
    /\ userInput = "none"
    /\ followup = FALSE
    /\ reply = <<>>
    /\ ridx = 0
    /\ rresults = <<>>
    /\ rwg = 0
    /\ gpc = <<>>
    /\ request = NoRequest
    /\ inflight = 0
    /\ infers = 0
    /\ reads = 0
    /\ received = 0
    /\ batch = <<>>
    /\ failed = FALSE
    /\ runErr = "none"

\* Faulty variant: the history is left as it is.
ResetHistoryResult_Kept(h) == h

\* Memory.ResetHistory: m.history = nil
ResetHistoryResult(h) == <<>>

\* a.memory.ResetHistory()
RunStart ==
    /\ rpc = "start"
    /\ history' = ResetHistoryResult(history)
    /\ rpc' = "input"
    /\ UNCHANGED <<userInput, agent, followup, reply, ridx, rresults, rwg, gpc, request, inflight,
                   infers, reads, received, batch, failed, runErr>>

\* Faulty variant: the end of the input is passed over and input is asked for again.
AfterInputEnds_Again == "input"

\* if !ok { break }
AfterInputEnds == "returned"

\* getUserMessage() reports the end of the input: Run returns nil.
InputEnds ==
    /\ rpc = "input"
    /\ rpc' = AfterInputEnds
    /\ runErr' = "nil"
    /\ UNCHANGED <<userInput, agent, history, followup, reply, ridx, rresults, rwg, gpc, request,
                   inflight, infers, reads, received, batch, failed>>

\* getUserMessage() returns the empty string.
InputEmpty ==
    /\ rpc = "input"
    /\ reads < MaxReads
    /\ reads' = reads + 1
    /\ userInput' = ""
    /\ IF EmptyInputSkipped
       THEN UNCHANGED <<history, rpc, followup>>
       ELSE /\ history' = MemoryAppended(history, UserMessage(reads + 1))
            /\ rpc' = "call"
            /\ followup' = FALSE
    /\ UNCHANGED <<agent, reply, ridx, rresults, rwg, gpc, request, inflight, infers,
                   received, batch, failed, runErr>>

\* getUserMessage() returns a text: a.memory.Append(userMessage)
InputText ==
    /\ rpc = "input"
    /\ reads < MaxReads
    /\ reads' = reads + 1
    /\ userInput' = "text"
    /\ history' = MemoryAppended(history, UserMessage(reads + 1))
    /\ rpc' = "call"
    /\ followup' = FALSE
    /\ UNCHANGED <<agent, reply, ridx, rresults, rwg, gpc, request, inflight, infers,
                   received, batch, failed, runErr>>

\* a.runInference(ctx, a.memory.Context()): the request is sent.
Infer ==
    /\ rpc = "call"
    /\ request' = InferenceParams(history)
    /\ inflight' = inflight + 1
    /\ infers' = infers + 1
    /\ rpc' = "infer"
    /\ UNCHANGED <<userInput, agent, history, followup, reply, ridx, rresults, rwg, gpc, reads, received,
                   batch, failed, runErr>>

\* The inference call fails.
InferenceError ==
    /\ rpc = "infer"
    /\ inflight' = inflight - 1
    /\ failed' = TRUE
    /\ rpc' = AfterInferenceError
    /\ runErr' = IF AfterInferenceError = "returned" THEN "inference failed" ELSE runErr
    /\ UNCHANGED <<userInput, agent, history, followup, reply, ridx, rresults, rwg, gpc, request,
                   infers, reads, received, batch>>

\* The inference call answers: a.memory.Append(message.ToParam()), and the batch's
\* results slice is made when the reply carries tool calls.
InferenceReply ==
    /\ rpc = "infer"
    /\ \E k \in 0..(MaxToolCalls - received) : \E calls \in RunBatches(k) :
          /\ reply' = calls
          /\ received' = received + k
          /\ history' = MemoryAppended(history, AssistantMessage(calls, infers))
          /\ rpc' = IF k = 0 THEN "input" ELSE "dispatch"
          /\ ridx' = 1
          /\ rresults' = [i \in 1..k |-> RunZeroResult]
          /\ gpc' = [i \in 1..k |-> "none"]
    /\ inflight' = inflight - 1
    /\ batch' = <<>>
    /\ UNCHANGED <<userInput, agent, followup, rwg, request, infers, reads, failed, runErr>>

RunLoopAdvance ==
    /\ ridx' = ridx + 1
    /\ rpc' = IF ridx = Len(reply) THEN "wait" ELSE "dispatch"

\* A function call naming an indexed tool: wg.Add(1); go func(...)
RunDispatchFound ==
    /\ rpc = "dispatch"
    /\ reply[ridx].kind = "function"
    /\ reply[ridx].name \in agent.toolIndex
    /\ rwg' = rwg + 1
    /\ gpc' = [gpc EXCEPT ![ridx] = "running"]
    /\ RunLoopAdvance
    /\ UNCHANGED <<userInput, agent, history, followup, reply, rresults, request, inflight, infers,
                   reads, received, batch, failed, runErr>>

\* A function call naming no indexed tool: the error message is appended at once.
RunDispatchNotFound ==
    /\ rpc = "dispatch"
    /\ reply[ridx].kind = "function"
    /\ reply[ridx].name \notin agent.toolIndex
    /\ history' = MemoryAppendedAll(history, NotFoundMessages(reply[ridx]))
    /\ batch' = batch \o NotFoundMessages(reply[ridx])
    /\ RunLoopAdvance
    /\ UNCHANGED <<userInput, agent, followup, reply, rresults, rwg, gpc, request, inflight, infers,
                   reads, received, failed, runErr>>

\* case ChatCompletionMessageCustomToolCall: the error message is appended at once.
RunDispatchCustom ==
    /\ rpc = "dispatch"
    /\ reply[ridx].kind = "custom"
    /\ LET msg == ToolMessage(<<"Error: ", "unsupported custom tool call">>, reply[ridx].id)
       IN  /\ history' = MemoryAppended(history, msg)
           /\ batch' = Append(batch, msg)
    /\ RunLoopAdvance
    /\ UNCHANGED <<userInput, agent, followup, reply, rresults, rwg, gpc, request, inflight, infers,
                   reads, received, failed, runErr>>

\* default: the error message is appended at once.
RunDispatchOther ==
    /\ rpc = "dispatch"
    /\ reply[ridx].kind = "other"
    /\ LET msg == ToolMessage(<<"Error: ", "unsupported tool call type">>, reply[ridx].id)
       IN  /\ history' = MemoryAppended(history, msg)
           /\ batch' = Append(batch, msg)
    /\ RunLoopAdvance
    /\ UNCHANGED <<userInput, agent, followup, reply, rresults, rwg, gpc, request, inflight, infers,
                   reads, received, failed, runErr>>

\* The goroutine: def.Function(payload) returns and results[index] is assigned.
RunToolFinish(i) ==
    /\ gpc[i] = "running"
    /\ LET r == Registry[reply[i].name]
       IN  rresults' = [rresults EXCEPT ![i] =
                           [output |-> r.Output, err |-> r.Error,
                            id |-> reply[i].id, handled |-> TRUE]]
    /\ gpc' = [gpc EXCEPT ![i] = "assigned"]
    /\ UNCHANGED <<userInput, agent, history, rpc, followup, reply, ridx, rwg, request, inflight,
                   infers, reads, received, batch, failed, runErr>>

\* The goroutine: defer wg.Done()
RunToolDone(i) ==
    /\ gpc[i] = "assigned"
    /\ rwg' = rwg - 1
    /\ gpc' = [gpc EXCEPT ![i] = "exited"]
    /\ UNCHANGED <<userInput, agent, history, rpc, followup, reply, ridx, rresults, request,
                   inflight, infers, reads, received, batch, failed, runErr>>

\* wg.Wait()
RunWait ==
    /\ rpc = "wait"
    /\ RunWaitReturns
    /\ rpc' = "collect"
    /\ UNCHANGED <<userInput, agent, history, followup, reply, ridx, rresults, rwg, gpc, request,
                   inflight, infers, reads, received, batch, failed, runErr>>

\* The tool messages of the second loop: one for every function call whose result
\* is handled, in call order.
RECURSIVE Collected(_)
Collected(i) ==
    IF i > Len(reply) THEN <<>>
    ELSE IF reply[i].kind = "function" /\ rresults[i].handled
    THEN <<ToolMessage(RunContent(rresults[i]), reply[i].id)>> \o Collected(i + 1)
    ELSE Collected(i + 1)

\* The second loop over message.ToolCalls; the follow-up inference call is next.
RunCollect ==
    /\ rpc = "collect"
    /\ history' = MemoryAppendedAll(history, Collected(1))
    /\ batch' = batch \o Collected(1)
    /\ rpc' = "call"
    /\ followup' = TRUE
    /\ UNCHANGED <<userInput, agent, reply, ridx, rresults, rwg, gpc, request, inflight, infers,
                   reads, received, failed, runErr>>

\* The inference call answers without error and without a choice:
\* response.Choices[0] is read all the same, the index is out of range and the
\* goroutine panics. Run and ReasoningChain.Execute read the reply alike.
EmptyChoices ==
    /\ rpc = "infer"
    /\ inflight' = inflight - 1
    /\ rpc' = "panicked"
    /\ runErr' = "index out of range"
    /\ UNCHANGED <<userInput, agent, history, followup, reply, ridx, rresults, rwg, gpc,
                   request, infers, reads, received, batch, failed>>

(* ---------------------- the earlier Agent.Run (read.go) ----------------- *)
\* The earlier program keeps the conversation in a local slice without a bound
\* (history, here) and runs the tools of a reply one after the other.

\* The tool of a.tools the call names, if any: a variant that is no function call
\* has an empty Function.Name.
LegacyToolFound(tc) ==
    /\ tc.kind = "function"
    /\ \E i \in 1..Len(agent.toolParams) : agent.toolParams[i] = tc.name

\* toolResult, toolError after the lookup loop and the not-found branch.
LegacyResult(tc) ==
    IF LegacyToolFound(tc)
    THEN [output |-> Registry[tc.name].Output, err |-> Registry[tc.name].Error]
    ELSE [output |-> "tool not found", err |-> "tool not found"]

\* The message appended for a call: on an error openai.ToolMessage is given the
\* call's id first and the error text second, otherwise the result and the id.
\* Both arguments are strings, kept here as sequences: the id's is <<tc.id>>.
LegacyToolMessage(tc) ==
    LET res == LegacyResult(tc)
    IN  IF res.err # "nil"
        THEN ToolMessage(<<tc.id>>, <<"Error: ", res.err>>)
        ELSE ToolMessage(<<res.output>>, <<tc.id>>)

\* One round of the loop over message.ToolCalls; after the last call the
\* inference call with the results is next.
LegacyToolCall ==
    /\ rpc = "dispatch"
    /\ history' = Append(history, LegacyToolMessage(reply[ridx]))
    /\ batch' = Append(batch, LegacyToolMessage(reply[ridx]))
    /\ ridx' = ridx + 1
    /\ rpc' = IF ridx = Len(reply) THEN "call" ELSE "dispatch"
    /\ followup' = IF ridx = Len(reply) THEN TRUE ELSE followup
    /\ UNCHANGED <<userInput, agent, reply, rresults, rwg, gpc, request, inflight, infers,
                   reads, received, failed, runErr>>

\* conversation := []openai.ChatCompletionMessageParamUnion{}
LegacyInit ==
    /\ RunInit
    /\ agent.maxHistory = 0
    /\ history = <<>>

(* ------------------------- Registry and EditFile ------------------------ *)
VARIABLES
    registry,    \* r.tools: the definitions stored, by name
    regLog,      \* the definitions passed to Register so far, in call order
    fs,          \* the files: each existing path's content
    tret         \* the last call: its operation, input, results and the tool function run

\* Strings are sequences of characters.
Chars == {"a", "b"}

RECURSIVE Strs(_)
Strs(n) == IF n = 0 THEN {<<>>} ELSE Strs(n - 1) \cup {Append(t, c) : t \in Strs(n - 1), c \in Chars}

\* The paths a call may name ("": no path); reads and writes of an existing
\* directory succeed, a missing file being the only read error.
Paths == {"", "f"}

ToolDefinitions == [Name : {"edit_file", "ok"}, Function : {"EditFile", "ok", "fail"}]

\* strings.Count: the non-overlapping instances of substr in t.
RECURSIVE Count(_, _)
Count(t, substr) ==
    IF substr = <<>> THEN Len(t) + 1
    ELSE IF Len(t) < Len(substr) THEN 0
    ELSE IF SubSeq(t, 1, Len(substr)) = substr
    THEN 1 + Count(SubSeq(t, Len(substr) + 1, Len(t)), substr)
    ELSE Count(Tail(t), substr)

\* Faulty variant: every instance is replaced.
RECURSIVE Replace_All(_, _, _)
Replace_All(t, old, new) ==
    IF Len(t) < Len(old) THEN t
    ELSE IF SubSeq(t, 1, Len(old)) = old
    THEN new \o Replace_All(SubSeq(t, Len(old) + 1, Len(t)), old, new)
    ELSE <<Head(t)>> \o Replace_All(Tail(t), old, new)

\* strings.Replace(t, old, new, 1) for a non-empty old: the first instance.
RECURSIVE Replace(_, _, _)
Replace(t, old, new) ==
    IF Len(t) < Len(old) THEN t
    ELSE IF SubSeq(t, 1, Len(old)) = old
    THEN new \o SubSeq(t, Len(old) + 1, Len(t))
    ELSE <<Head(t)>> \o Replace(Tail(t), old, new)

\* os.WriteFile
WriteFile(files, path, content) ==
    [q \in DOMAIN files \cup {path} |-> IF q = path THEN content ELSE files[q]]

createNewFile(files, filePath, content) ==
    [fs |-> WriteFile(files, filePath, content),
     out |-> "Successfully created file",
     err |-> "nil"]

\* Faulty variant: a missing file is created whatever old_str is.
EditFile_CreateAlways(files, in) ==
    IF in.path = "" \/ in.old = in.new
    THEN [fs |-> files, out |-> "", err |-> "invalid input parameters"]
    ELSE IF in.path \notin DOMAIN files
    THEN createNewFile(files, in.path, in.new)
    ELSE [fs |-> WriteFile(files, in.path, Replace_All(files[in.path], in.old, in.new)),
          out |-> "OK", err |-> "nil"]

EditFile(files, in) ==
    IF in.path = "" \/ in.old = in.new
    THEN [fs |-> files, out |-> "", err |-> "invalid input parameters"]
    ELSE IF in.path \notin DOMAIN files /\ in.old = <<>>
    THEN createNewFile(files, in.path, in.new)
    ELSE LET oldContent == IF in.path \in DOMAIN files THEN files[in.path] ELSE <<>>
             count == Count(oldContent, in.old)
         IN  IF in.old = <<>>
             THEN [fs |-> WriteFile(files, in.path, oldContent \o in.new),
                   out |-> "OK", err |-> "nil"]
             ELSE IF count = 0
             THEN [fs |-> files, out |-> "", err |-> "old_str not found in file"]
             ELSE IF count > 1
             THEN [fs |-> files, out |-> "", err |-> "old_str found several times"]
             ELSE [fs |-> WriteFile(files, in.path, Replace(oldContent, in.old, in.new)),
                   out |-> "OK", err |-> "nil"]

\* tool.Function(arguments, log)
ToolFunction(fn, files, in) ==
    IF fn = "EditFile" THEN EditFile(files, in)
    ELSE [fs |-> files, out |-> Registry[fn].Output, err |-> Registry[fn].Error]

NoCall == [op |-> "none", in |-> "", out |-> "", err |-> "nil", fn |-> "none"]

ToolsIdle ==
    /\ registry = <<>>
    /\ regLog = <<>>
    /\ fs = <<>>
    /\ tret = NoCall

\* Faulty variant: a later definition replaces the earlier one.
Registered_Overwrite(tools, tool) ==
    [n \in DOMAIN tools \cup {tool.Name} |-> IF n = tool.Name THEN tool ELSE tools[n]]

\* Register's outcome on r.tools: unchanged when the name exists.
Registered(tools, tool) ==
    IF tool.Name \in DOMAIN tools THEN tools
    ELSE [n \in DOMAIN tools \cup {tool.Name} |-> IF n = tool.Name THEN tool ELSE tools[n]]

Register ==
    /\ Len(regLog) < MaxRegs
    /\ \E tool \in ToolDefinitions :
          /\ registry' = Registered(registry, tool)
          /\ regLog' = Append(regLog, tool)
          /\ tret' = [op |-> "Register", in |-> tool, out |-> "",
                      err |-> IF tool.Name \in DOMAIN registry
                              THEN "already registered" ELSE "nil",
                      fn |-> "none"]
    /\ UNCHANGED fs

\* The five built-in tools, in the order RegisterBuiltinTools lists them; "ok"
\* stands for a tool function that is not EditFile.
BuiltinTools ==
    <<[Name |-> "read_file", Function |-> "ok"],
      [Name |-> "list_files", Function |-> "ok"],
      [Name |-> "bash", Function |-> "ok"],
      [Name |-> "edit_file", Function |-> "EditFile"],
      [Name |-> "code_search", Function |-> "ok"]>>

\* Faulty variant: a tool that cannot be registered is passed over and the loop
\* goes on with the next.
RECURSIVE RegisterAll_Continue(_, _)
RegisterAll_Continue(tools, list) ==
    IF list = <<>> THEN [tools |-> tools, err |-> "nil", tried |-> <<>>]
    ELSE LET r == RegisterAll_Continue(Registered(tools, Head(list)), Tail(list))
         IN  [tools |-> r.tools,
              err |-> IF Head(list).Name \in DOMAIN tools THEN "already registered"
                      ELSE r.err,
              tried |-> <<Head(list)>> \o r.tried]

\* for _, tool := range tools { if err := registry.Register(tool); err != nil
\* { return err } }: the registry left, the error returned and the definitions
\* passed to Register.
RECURSIVE RegisterAll(_, _)
RegisterAll(tools, list) ==
    IF list = <<>> THEN [tools |-> tools, err |-> "nil", tried |-> <<>>]
    ELSE IF Head(list).Name \in DOMAIN tools
    THEN [tools |-> tools, err |-> "already registered", tried |-> <<Head(list)>>]
    ELSE LET r == RegisterAll(Registered(tools, Head(list)), Tail(list))
         IN  [tools |-> r.tools, err |-> r.err, tried |-> <<Head(list)>> \o r.tried]

RegisterBuiltinTools ==
    /\ Len(regLog) <= MaxRegs + Len(BuiltinTools)
    /\ LET r == RegisterAll(registry, BuiltinTools)
       IN  /\ registry' = r.tools
           /\ regLog' = regLog \o r.tried
           /\ tret' = [op |-> "RegisterBuiltinTools", in |-> "", out |-> "",
                       err |-> r.err, fn |-> "none"]
    /\ UNCHANGED fs

\* Faulty variant: an unknown name yields the first definition stored.
GetResult_Any(tools, name) ==
    IF name \in DOMAIN tools THEN [tool |-> tools[name], exists |-> TRUE]
    ELSE IF DOMAIN tools # {}
    THEN [tool |-> tools[CHOOSE n \in DOMAIN tools : TRUE], exists |-> TRUE]
    ELSE [tool |-> [Name |-> "", Function |-> "none"], exists |-> FALSE]

\* tool, exists := r.tools[name]
GetResult(tools, name) ==
    IF name \in DOMAIN tools THEN [tool |-> tools[name], exists |-> TRUE]
    ELSE [tool |-> [Name |-> "", Function |-> "none"], exists |-> FALSE]

Get ==
    /\ tret.op \in {"none", "Register"}
    /\ \E name \in {"edit_file", "ok", "missing"} :
          tret' = [op |-> "Get", in |-> name, out |-> GetResult(registry, name),
                   err |-> "nil", fn |-> "none"]
    /\ UNCHANGED <<registry, regLog, fs>>

\* Registry.ExecuteTool: the tool's function is run on the arguments, or the
\* not-found error is returned.
RegistryExecuteTool ==
    /\ tret.op \in {"none", "Register"}
    /\ \E name \in {"edit_file", "ok", "missing"} :
       \E in \in [path : Paths, old : Strs(MaxStr), new : Strs(MaxStr)] :
          LET got == GetResult(registry, name)
              res == ToolFunction(got.tool.Function, fs, in)
          IN  IF ~got.exists
              THEN /\ tret' = [op |-> "ExecuteTool", in |-> [name |-> name, args |-> in],
                               out |-> "", err |-> <<"tool '", name, "' not found">>,
                               fn |-> "none"]
                   /\ fs' = fs
              ELSE /\ \A q \in DOMAIN res.fs : Len(res.fs[q]) <= MaxFile
                   /\ tret' = [op |-> "ExecuteTool", in |-> [name |-> name, args |-> in],
                               out |-> res.out, err |-> res.err,
                               fn |-> got.tool.Function]
                   /\ fs' = res.fs
    /\ UNCHANGED <<registry, regLog>>

\* NewAgent on a list of tool definitions, given by their names.
BuildAgent ==
    /\ tret.op \in {"none", "Register"}
    /\ \E toolDefs \in UNION {[1..n -> {"ok", "fail"}] : n \in 0..MaxRegs} :
          tret' = [op |-> "NewAgent", in |-> toolDefs, out |-> NewAgent(toolDefs, 0),
                   err |-> "nil", fn |-> "none"]
    /\ UNCHANGED <<registry, regLog, fs>>

(* ---------------------------- ReasoningChain ---------------------------- *)
VARIABLES
    rc,          \* the ReasoningChain (steps, maxSteps) and Execute's step, the text
                 \* of the last reply (last) and the answer returned
    system       \* agent.memory: the system prefix

DefaultMaxSteps == 10
CompleteLen == 50

\* The texts a reply may carry, as sequences of phrases.
Texts ==
    {<<>>, <<"Final Answer">>, <<"Let me">>, <<"thinking">>, <<"Let me", "thinking">>,
     <<"filler", "ok">>, <<" ", "filler">>, <<"next", "filler", "ok">>,
     <<"Let me", "filler", "ok">>, <<"Let me", "Final Answer">>}

\* strings.ToLower, phrase by phrase.
ToLower(content) ==
    [i \in 1..Len(content) |->
        CASE content[i] = "Final Answer" -> "final answer"
          [] content[i] = "Let me" -> "let me"
          [] OTHER -> content[i]]

\* strings.Contains
Contains(content, cue) == \E i \in 1..Len(content) : content[i] = cue

\* len(strings.TrimSpace(content)): "filler" stands for fifty characters.
RECURSIVE TrimmedLen(_)
TrimmedLen(content) ==
    IF content = <<>> THEN 0
    ELSE IF Head(content) = " " THEN TrimmedLen(Tail(content))
    ELSE IF content[Len(content)] = " " THEN TrimmedLen(SubSeq(content, 1, Len(content) - 1))
    ELSE IF Head(content) = "filler" THEN CompleteLen + TrimmedLen(Tail(content))
    ELSE 2 + TrimmedLen(Tail(content))

NewReasoningChain(maxSteps) ==
    [steps |-> <<>>,
     maxSteps |-> IF maxSteps <= 0 THEN DefaultMaxSteps ELSE maxSteps,
     step |-> 0,
     last |-> <<>>,
     answer |-> <<>>]

\* Faulty variant: tool calls are looked at first.
analyzeStepType_ToolsFirst(message) ==
    IF Len(message.calls) > 0 THEN "action" ELSE "final"

\* Faulty variant: a reply is final only when it carries a final-answer marker.
analyzeStepType_MarkersOnly(message) ==
    LET content == ToLower(message.content)
    IN  IF \/ Contains(content, "final answer")
           \/ Contains(content, "answer:")
           \/ Contains(content, "conclusion:")
        THEN "final"
        ELSE IF \/ Contains(content, "thinking")
                \/ Contains(content, "thought:")
                \/ Contains(content, "reason:")
        THEN "thought"
        ELSE IF Len(message.calls) > 0 THEN "action"
        ELSE "observation"

analyzeStepType(message) ==
    LET content == ToLower(message.content)
    IN  IF \/ Contains(content, "final answer")
           \/ Contains(content, "answer:")
           \/ Contains(content, "conclusion:")
           \/ (Len(message.calls) = 0 /\ ~Contains(content, "let me"))
        THEN "final"
        ELSE IF \/ Contains(content, "thinking")
                \/ Contains(content, "thought:")
                \/ Contains(content, "reason:")
        THEN "thought"
        ELSE IF Len(message.calls) > 0 THEN "action"
        ELSE "observation"

isFinalAnswer(content) ==
    LET lowerContent == ToLower(content)
    IN  \/ Contains(lowerContent, "final answer")
        \/ Contains(lowerContent, "answer:")
        \/ Contains(lowerContent, "conclusion:")

isCompleteAnswer(content) ==
    LET lowerContent == ToLower(content)
        actionWords == {"let me", "i'll", "i will", "next", "now", "then",
                        "search", "read", "execute", "run", "check", "verify"}
    IN  /\ \A word \in actionWords : ~Contains(lowerContent, word)
        /\ TrimmedLen(content) > CompleteLen

\* What executor.ExecuteToolCalls returns for a batch whose context stays live.
ExecutorMessages(calls) ==
    ToMessages([i \in 1..Len(calls) |->
        CASE calls[i].kind = "function" ->
                 [Output |-> ExecuteTool(calls[i].name).Output,
                  Error |-> ExecuteTool(calls[i].name).Error,
                  CallID |-> calls[i].id]
          [] calls[i].kind = "custom" ->
                 [Output |-> "unsupported custom tool call",
                  Error |-> "unsupported custom tool call",
                  CallID |-> calls[i].id]
          [] OTHER ->
                 [Output |-> "unsupported tool call type",
                  Error |-> "unsupported tool call type",
                  CallID |-> calls[i].id]])

ChainIdle ==
    /\ rc = NewReasoningChain(0)
    /\ system = <<>>

\* An agent and a chain as constructed; the memory may hold a system prefix and
\* what an earlier Execute left behind.
ReasonInit ==
    /\ \E toolDefs \in ToolDefs, capacity \in 0..MaxMemCap :
          agent = NewAgent(toolDefs, capacity)
    /\ \E maxSteps \in 1..MaxSteps : rc = NewReasoningChain(maxSteps)
    /\ system \in {<<>>, <<[role |-> "system", n |-> 0]>>}
    /\ history \in {<<>>, <<UserMessage(0)>>}
    /\ rpc = "start"
    /\ userInput = "text"
    /\ followup = FALSE
    /\ reply = <<>>
    /\ ridx = 0
    /\ rresults = <<>>
    /\ rwg = 0
    /\ gpc = <<>>
    /\ request = NoRequest
    /\ inflight = 0
    /\ infers = 0
    /\ reads = 0
    /\ received = 0
    /\ batch = <<>>
    /\ failed = FALSE
    /\ runErr = "none"
    /\ heap = [a \in ArrIds |-> <<>>]
    /\ m = NewMemory(0)
    /\ SeqIdle
    /\ ConcIdle
    /\ ExecIdle
    /\ ToolsIdle

\* Faulty variant: Execute starts from an empty list of steps.
ExecuteStart_Clearing ==
    /\ rpc = "start"
    /\ history' = MemoryAppended(ResetHistoryResult(history), UserMessage(1))
    /\ rc' = [rc EXCEPT !.step = 0, !.steps = <<>>]
    /\ rpc' = "call"
    /\ UNCHANGED <<system, userInput, agent, followup, reply, ridx, rresults, rwg, gpc,
                   request, inflight, infers, reads, received, batch, failed, runErr>>

\* agent.memory.ResetHistory(); agent.memory.Append(openai.UserMessage(userInput))
ExecuteStart ==
    /\ rpc = "start"
    /\ history' = MemoryAppended(ResetHistoryResult(history), UserMessage(1))
    /\ rc' = [rc EXCEPT !.step = 0]
    /\ rpc' = "call"
    /\ UNCHANGED <<system, userInput, agent, followup, reply, ridx, rresults, rwg, gpc,
                   request, inflight, infers, reads, received, batch, failed, runErr>>

\* Faulty variant: the loop runs one step too many.
StepsRemain_Inclusive == rc.step <= rc.maxSteps

\* for step := 0; step < rc.maxSteps; step++
StepsRemain == rc.step < rc.maxSteps

\* agent.runInference(ctx, agent.memory.Context()); message is a variable of the
\* loop body: the new round has none yet.
ExecuteInfer ==
    /\ rpc = "call"
    /\ StepsRemain
    /\ request' = InferenceParams(system \o history)
    /\ inflight' = inflight + 1
    /\ infers' = infers + 1
    /\ rpc' = "infer"
    /\ rc' = [rc EXCEPT !.last = <<>>]
    /\ UNCHANGED <<system, userInput, agent, history, followup, reply, ridx, rresults,
                   rwg, gpc, reads, received, batch, failed, runErr>>

\* The loop ends: the exceeded-maximum-steps error.
ExecuteExceeded ==
    /\ rpc = "call"
    /\ ~StepsRemain
    /\ rc' = [rc EXCEPT !.answer = <<>>]
    /\ runErr' = "exceeded maximum steps"
    /\ rpc' = "returned"
    /\ UNCHANGED <<system, userInput, agent, history, followup, reply, ridx, rresults, rwg,
                   gpc, request, inflight, infers, reads, received, batch, failed>>

\* The inference call fails: the wrapped error is returned.
ExecuteError ==
    /\ rpc = "infer"
    /\ inflight' = inflight - 1
    /\ failed' = TRUE
    /\ rc' = [rc EXCEPT !.answer = <<>>]
    /\ runErr' = "reasoning step failed"
    /\ rpc' = "returned"
    /\ UNCHANGED <<system, userInput, agent, history, followup, reply, ridx, rresults, rwg,
                   gpc, request, infers, reads, received, batch>>

\* The inference call answers: the step is recorded, the reply appended, its tool
\* calls executed and their messages appended, or the completion checks made.
ExecuteReply ==
    /\ rpc = "infer"
    /\ inflight' = inflight - 1
    /\ \E content \in Texts, k \in 0..(MaxCalls - received) :
       \E calls \in {b \in Batches(k) :
                        \A i \in 1..k : b[i].id = EmptyID => b[i].kind = "custom"} :
          LET message == [content |-> content, calls |-> calls]
              stepType == analyzeStepType(message)
              appended == MemoryAppended(history, AssistantMessage(calls, infers))
              toolMessages == ExecutorMessages(calls)
              done == /\ k = 0
                      /\ \/ isFinalAnswer(content)
                         \/ stepType = "final"
                         \/ isCompleteAnswer(content)
          IN  /\ reply' = calls
              /\ received' = received + k
              /\ followup' = (k > 0)
              /\ batch' = IF k > 0 THEN toolMessages ELSE <<>>
              /\ history' = IF k > 0 THEN MemoryAppendedAll(appended, toolMessages)
                            ELSE appended
              /\ rc' = [rc EXCEPT !.steps = Append(@, [Type |-> stepType, ToolCalls |-> calls]),
                                  !.step = IF done THEN @ ELSE @ + 1,
                                  !.last = content,
                                  !.answer = IF done THEN content ELSE @]
              /\ runErr' = IF done THEN "nil" ELSE runErr
              /\ rpc' = IF done THEN "returned" ELSE "call"
    /\ UNCHANGED <<system, userInput, agent, ridx, rresults, rwg, gpc, request, infers,
                   reads, failed>>

\* Execute has returned and the caller calls it once more, on the same chain and
\* the same agent; what the call before kept in its own variables is gone.
ExecuteAgain ==
    /\ rpc = "returned"
    /\ reads + 1 < MaxExecs
    /\ reads' = reads + 1
    /\ rpc' = "start"
    /\ rc' = [rc EXCEPT !.last = <<>>, !.answer = <<>>]
    /\ infers' = 0
    /\ failed' = FALSE
    /\ runErr' = "none"
    /\ followup' = FALSE
    /\ reply' = <<>>
    /\ batch' = <<>>
    /\ request' = NoRequest
    /\ UNCHANGED <<system, userInput, agent, history, ridx, rresults, rwg, gpc, inflight,
                   received>>

\* The caller calls Reset between two Execute calls: rc.steps = nil
Reset ==
    /\ rpc = "returned"
    /\ rc.steps # <<>>
    /\ rc' = [rc EXCEPT !.steps = <<>>]
    /\ UNCHANGED <<system, runVars>>

(* ------------------------------ specifications -------------------------- *)
vars == <<heap, m, held, lastOp, snap, prevSnap, log, fresh, next, pc, loc, mu, ser,
          toolCalls, maxWorkers, results, written, semaphore, wg, epc, idx, upc,
          cancelled, lastDone, invoked, messages, retErr,
          userInput, agent, history, rpc, followup, reply, ridx, rresults, rwg, gpc,
          request, inflight, infers, reads, received, batch, failed, runErr,
          rc, system, registry, regLog, fs, tret>>

\* One Memory, one caller.
SeqFrame == UNCHANGED <<concVars, execVars, runVars, rc, system, registry, regLog, fs, tret>>

Init == MemInit /\ ConcIdle /\ ExecIdle /\ RunIdle /\ ChainIdle /\ ToolsIdle

Next ==
    \/ SetSystemMessages /\ SeqFrame
    \/ MemoryAppend /\ SeqFrame
    \/ AppendMany /\ SeqFrame
    \/ TrimTo /\ SeqFrame
    \/ ResetHistory /\ SeqFrame
    \/ Context /\ SeqFrame
    \/ CallerOverwrite /\ SeqFrame

Spec == Init /\ [][Next]_vars

\* One Memory, concurrent callers.
ConcFrame == UNCHANGED <<seqVars, execVars, runVars, rc, system, registry, regLog, fs, tret>>

ConcInitAll == ConcInit /\ SeqIdle /\ ExecIdle /\ RunIdle /\ ChainIdle /\ ToolsIdle

ConcNextAll ==
    \E t \in Threads :
        \/ CheckEmpty(t) /\ ConcFrame
        \/ Lock(t) /\ ConcFrame
        \/ RLock(t) /\ ConcFrame
        \/ StmtAppend(t) /\ ConcFrame
        \/ StmtSetMax(t) /\ ConcFrame
        \/ StmtTrim(t) /\ ConcFrame
        \/ StmtReset(t) /\ ConcFrame
        \/ StmtSetSys(t) /\ ConcFrame
        \/ StmtSetSysCopy(t) /\ ConcFrame
        \/ StmtTotal(t) /\ ConcFrame
        \/ StmtMake(t) /\ ConcFrame
        \/ StmtCopy1(t) /\ ConcFrame
        \/ StmtCopy2(t) /\ ConcFrame
        \/ StmtCount(t) /\ ConcFrame
        \/ Unlock(t) /\ ConcFrame
        \/ RUnlock(t) /\ ConcFrame

SpecConc == ConcInitAll /\ [][ConcNextAll]_vars

\* One ExecuteToolCalls call.
ExecFrame == UNCHANGED <<memVars, concVars, runVars, rc, system, registry, regLog, fs, tret>>

ExecInitAll ==
    /\ ExecInit
    /\ heap = [a \in ArrIds |-> <<>>]
    /\ m = NewMemory(0)
    /\ SeqIdle
    /\ ConcIdle
    /\ RunIdle
    /\ ChainIdle
    /\ ToolsIdle

ExecNextAll ==
    \/ Start /\ ExecFrame
    \/ DispatchFunction /\ ExecFrame
    \/ DispatchCustom /\ ExecFrame
    \/ DispatchOther /\ ExecFrame
    \/ \E i \in 1..Len(toolCalls) :
          \/ Acquire(i) /\ ExecFrame
          \/ CheckCancelled(i) /\ ExecFrame
          \/ StartTool(i) /\ ExecFrame
          \/ FinishTool(i) /\ ExecFrame
          \/ Release(i) /\ ExecFrame
          \/ Done(i) /\ ExecFrame
    \/ Wait /\ ExecFrame
    \/ Convert /\ ExecFrame
    \/ Cancel /\ ExecFrame

SpecExec == ExecInitAll /\ [][ExecNextAll]_vars

\* The calling goroutine's steps, and the steps of call i's goroutine.
ExecMainStep ==
    (Start \/ DispatchFunction \/ DispatchCustom \/ DispatchOther \/ Wait \/ Convert)
        /\ ExecFrame

ExecUnitStep(i) ==
    /\ i \in 1..Len(toolCalls)
    /\ (Acquire(i) \/ CheckCancelled(i) \/ StartTool(i) \/ FinishTool(i) \/ Release(i)
            \/ Done(i))
    /\ ExecFrame

\* The scheduler runs every goroutine that can take a step, and every tool body
\* returns; nothing obliges the caller to cancel.
SpecExecFair ==
    /\ SpecExec
    /\ WF_vars(ExecMainStep)
    /\ \A i \in 1..MaxCalls : WF_vars(ExecUnitStep(i))

\* One Agent.Run call.
RunFrame == UNCHANGED <<memVars, concVars, execVars, rc, system, registry, regLog, fs, tret>>

RunInitAll ==
    /\ RunInit
    /\ heap = [a \in ArrIds |-> <<>>]
    /\ m = NewMemory(0)
    /\ SeqIdle
    /\ ConcIdle
    /\ ExecIdle
    /\ ChainIdle
    /\ ToolsIdle

RunNextAll ==
    \/ RunStart /\ RunFrame
    \/ InputEnds /\ RunFrame
    \/ InputEmpty /\ RunFrame
    \/ InputText /\ RunFrame
    \/ Infer /\ RunFrame
    \/ InferenceError /\ RunFrame
    \/ InferenceReply /\ RunFrame
    \/ RunDispatchFound /\ RunFrame
    \/ RunDispatchNotFound /\ RunFrame
    \/ RunDispatchCustom /\ RunFrame
    \/ RunDispatchOther /\ RunFrame
    \/ \E i \in 1..Len(reply) :
          \/ RunToolFinish(i) /\ RunFrame
          \/ RunToolDone(i) /\ RunFrame
    \/ RunWait /\ RunFrame
    \/ RunCollect /\ RunFrame

SpecRun == RunInitAll /\ [][RunNextAll]_vars

\* Run's own goroutine keeps running, the input source and the inference client
\* answer, and the Go scheduler runs every tool goroutine, whose tool returns.
SpecRunFair == SpecRun /\ WF_vars(RunNextAll)

\* Agent.Run with an inference client that may also answer without a choice.
RunChoicesNextAll ==
    \/ RunStart /\ RunFrame
    \/ InputEnds /\ RunFrame
    \/ InputEmpty /\ RunFrame
    \/ InputText /\ RunFrame
    \/ Infer /\ RunFrame
    \/ InferenceError /\ RunFrame
    \/ InferenceReply /\ RunFrame
    \/ EmptyChoices /\ RunFrame
    \/ RunDispatchFound /\ RunFrame
    \/ RunDispatchNotFound /\ RunFrame
    \/ RunDispatchCustom /\ RunFrame
    \/ RunDispatchOther /\ RunFrame
    \/ \E i \in 1..Len(reply) :
          \/ RunToolFinish(i) /\ RunFrame
          \/ RunToolDone(i) /\ RunFrame
    \/ RunWait /\ RunFrame
    \/ RunCollect /\ RunFrame

SpecRunChoices == RunInitAll /\ [][RunChoicesNextAll]_vars

\* One call of the earlier Agent.Run.
LegacyInitAll ==
    /\ LegacyInit
    /\ heap = [a \in ArrIds |-> <<>>]
    /\ m = NewMemory(0)
    /\ SeqIdle
    /\ ConcIdle
    /\ ExecIdle
    /\ ChainIdle
    /\ ToolsIdle

LegacyNextAll ==
    \/ RunStart /\ RunFrame
    \/ InputEnds /\ RunFrame
    \/ InputEmpty /\ RunFrame
    \/ InputText /\ RunFrame
    \/ Infer /\ RunFrame
    \/ InferenceError /\ RunFrame
    \/ InferenceReply /\ RunFrame
    \/ LegacyToolCall /\ RunFrame

SpecLegacy == LegacyInitAll /\ [][LegacyNextAll]_vars

\* One ReasoningChain.Execute call.
ReasonNextAll ==
    \/ ExecuteStart /\ UNCHANGED <<memVars, concVars, execVars, registry, regLog, fs, tret>>
    \/ ExecuteInfer /\ UNCHANGED <<memVars, concVars, execVars, registry, regLog, fs, tret>>
    \/ ExecuteExceeded /\ UNCHANGED <<memVars, concVars, execVars, registry, regLog, fs, tret>>
    \/ ExecuteError /\ UNCHANGED <<memVars, concVars, execVars, registry, regLog, fs, tret>>
    \/ ExecuteReply /\ UNCHANGED <<memVars, concVars, execVars, registry, regLog, fs, tret>>

SpecReason == ReasonInit /\ [][ReasonNextAll]_vars

\* ReasoningChain.Execute with an inference client that may also answer without
\* a choice.
ReasonChoicesNextAll ==
    \/ ReasonNextAll
    \/ EmptyChoices /\ UNCHANGED <<memVars, concVars, execVars, rc, system, registry, regLog,
                                    fs, tret>>

SpecReasonChoices == ReasonInit /\ [][ReasonChoicesNextAll]_vars

\* Several Execute calls on one chain, with Reset calls in between.
ChainNextAll ==
    \/ ExecuteStart /\ UNCHANGED <<memVars, concVars, execVars, registry, regLog, fs, tret>>
    \/ ExecuteInfer /\ UNCHANGED <<memVars, concVars, execVars, registry, regLog, fs, tret>>
    \/ ExecuteExceeded /\ UNCHANGED <<memVars, concVars, execVars, registry, regLog, fs, tret>>
    \/ ExecuteError /\ UNCHANGED <<memVars, concVars, execVars, registry, regLog, fs, tret>>
    \/ ExecuteReply /\ UNCHANGED <<memVars, concVars, execVars, registry, regLog, fs, tret>>
    \/ ExecuteAgain /\ UNCHANGED <<memVars, concVars, execVars, registry, regLog, fs, tret>>
    \/ Reset /\ UNCHANGED <<memVars, concVars, execVars, registry, regLog, fs, tret>>

\* The chain's steps do not depend on the agent's memory: one agent, without
\* tools and with an unbounded, empty memory.
ChainInit ==
    /\ ReasonInit
    /\ agent = NewAgent(<<>>, 0)
    /\ system = <<>>
    /\ history = <<>>

SpecChain == ChainInit /\ [][ChainNextAll]_vars

\* A Registry, the files its tools edit, and NewAgent: tools are registered and a
\* call is made, on a registry that Register has built and on files that Init
\* draws.
ToolsInit ==
    /\ registry = <<>>
    /\ regLog = <<>>
    /\ fs \in {<<>>} \cup {[q \in {"f"} |-> c] : c \in Strs(MaxFile)}
    /\ tret = NoCall
    /\ heap = [a \in ArrIds |-> <<>>]
    /\ m = NewMemory(0)
    /\ SeqIdle
    /\ ConcIdle
    /\ ExecIdle
    /\ RunIdle
    /\ ChainIdle

ToolsNext ==
    \/ Register /\ UNCHANGED <<memVars, concVars, execVars, runVars, rc, system>>
    \/ Get /\ UNCHANGED <<memVars, concVars, execVars, runVars, rc, system>>
    \/ RegistryExecuteTool /\ UNCHANGED <<memVars, concVars, execVars, runVars, rc, system>>
    \/ BuildAgent /\ UNCHANGED <<memVars, concVars, execVars, runVars, rc, system>>

SpecTools == ToolsInit /\ [][ToolsNext]_vars

\* A registry filled at start-up by Register calls and RegisterBuiltinTools.
BuiltinNext ==
    \/ Register /\ UNCHANGED <<memVars, concVars, execVars, runVars, rc, system>>
    \/ RegisterBuiltinTools /\ UNCHANGED <<memVars, concVars, execVars, runVars, rc, system>>
    \/ Get /\ UNCHANGED <<memVars, concVars, execVars, runVars, rc, system>>

SpecBuiltin == ToolsInit /\ [][BuiltinNext]_vars

(* ------------------------- claims about Memory -------------------------- *)
\* What Context() returns in the current state.
ContextValue ==
    LET r == ContextBody(heap, m, Used(m, <<held>>))
    IN  Elems(r.heap, r.slice)

\* C1 as stated: len(history) <= maxHistory after every operation, whatever
\* maxHistory was given to NewMemory or TrimTo.
C1_AlwaysBounded == Len(History) <= m.maxHistory

\* C1 (amended): whenever maxHistory is positive, len(history) <= maxHistory holds
\* after every operation; a Memory whose maxHistory is not positive is unbounded.
C1_BoundedWhenPositive == m.maxHistory > 0 => Len(History) <= m.maxHistory

C1_Witness ==
    /\ lastOp = "mutation"
    /\ fresh /\ m.maxHistory > 0
    /\ Len(log) > m.maxHistory
    /\ Len(History) = m.maxHistory

\* C2: after n > c appends (Append or AppendMany) to a fresh Memory(c), c > 0,
\* history is exactly the last c appended messages in their original order.
C2_LastCKept ==
    (fresh /\ m.maxHistory > 0 /\ Len(log) > m.maxHistory)
        => History = LastN(log, m.maxHistory)

C2_Witness ==
    /\ fresh /\ lastOp = "mutation"
    /\ m.maxHistory = 2 /\ Len(log) = 3
    /\ log[2] # log[3]
    /\ History = <<log[2], log[3]>>

\* C3: ResetHistory leaves the system prefix unchanged, empties the history, and
\* Context() afterwards equals the system prefix alone.
C3_ResetKeepsSystem ==
    [][lastOp' = "ResetHistory" =>
          /\ System' = System
          /\ History' = <<>>
          /\ ContextValue' = System]_vars

C3_Witness ==
    /\ lastOp = "ResetHistory"
    /\ Len(System) = 2 /\ System[1] # System[2]
    /\ ContextValue = System

\* C4: Context() returns the system prefix followed by the history, each in stored
\* order, and a second Context() with no mutation in between returns the same.
C4_ContextIsSystemThenHistory ==
    lastOp = "Context" =>
        /\ snap = System \o History
        /\ prevSnap # NoSnap => snap = prevSnap

C4_Witness ==
    /\ lastOp = "Context"
    /\ prevSnap # NoSnap
    /\ Len(System) > 0 /\ Len(History) > 1
    /\ System[1] # History[1] /\ History[1] # History[2]

\* C5: a caller overwriting an element of a slice it got from Context(), or passed
\* to SetSystemMessages or AppendMany, does not change what Context() returns.
C5_NoSharing ==
    [][lastOp' = "CallerOverwrite" => ContextValue' = ContextValue]_vars

C5_Witness ==
    /\ lastOp = "CallerOverwrite"
    /\ held.len > 0
    /\ Len(System) > 0 /\ Len(History) > 0

(* -------------------- claims about concurrent callers ------------------- *)
\* C6: every call takes effect atomically: whenever no writer holds the lock the
\* contents are those the completed calls give when run one after the other in
\* lock order (no appended message lost but by trimming or reset), and the result
\* a Context() or MessageCount() call is about to return is those contents.
C6_Atomic ==
    /\ mu.writer = 0 =>
          /\ System = ser.system
          /\ History = ser.history
          /\ Len(History) <= m.maxHistory
    /\ \A t \in Threads :
          pc[t] = "RUnlock" =>
             /\ loc[t].op = "Context" =>
                   Elems(heap, loc[t].out) = ser.system \o ser.history
             /\ loc[t].op = "MessageCount" =>
                   loc[t].total = Len(ser.system) + Len(ser.history)

C6_Witness ==
    /\ pc[1] = "RUnlock" /\ loc[1].op = "Context"
    /\ pc[2] = "count" /\ mu.readers = {1, 2}
    /\ Len(ser.system) > 0
    /\ Len(ser.history) = m.maxHistory
    /\ \E i \in 1..Len(ser.history) : ser.history[i] = 1
    /\ \E i \in 1..Len(ser.history) : ser.history[i] = 2

(* ----------------------- claims about ToolExecutor ---------------------- *)
CallIds == [i \in 1..Len(toolCalls) |-> toolCalls[i].id]
MessageIds == [i \in 1..Len(messages) |-> messages[i].id]
Running == {i \in 1..Len(toolCalls) : upc[i] = "running"}

\* C7: for every batch of k tool calls, whatever their kinds, names and ids, the
\* returned sequence has exactly k tool messages and the i-th carries the id of
\* the i-th call.
C7_OneMessagePerCall ==
    epc = "returned" =>
        /\ Len(messages) = Len(toolCalls)
        /\ \A i \in 1..Len(toolCalls) : messages[i].id = toolCalls[i].id

\* C8: the returned tool messages are in the order of the input tool calls,
\* whatever the order in which the goroutines got the semaphore or finished.
C8_InputOrder ==
    epc = "returned" =>
        MessageIds = SelectSeq(CallIds, LAMBDA d : d # EmptyID)

C8_Witness ==
    /\ epc = "returned"
    /\ Len(toolCalls) = 2
    /\ \A i \in 1..2 : toolCalls[i].kind = "function" /\ toolCalls[i].id = i
    /\ lastDone = 1
    /\ MessageIds = <<1, 2>>

\* C9: with worker limit w and k > w function calls, never more than w tool
\* bodies (ExecuteTool invocations) run at the same time.
C9_AtMostWRunning == Cardinality(Running) <= maxWorkers

C9_Witness ==
    /\ Len(toolCalls) > maxWorkers
    /\ \A i \in 1..Len(toolCalls) : toolCalls[i].kind = "function"
    /\ Cardinality(Running) = maxWorkers
    /\ \E i \in 1..Len(toolCalls) : upc[i] = "acquire"

\* C10: when ExecuteToolCalls returns, no goroutine it started is still waiting
\* or running, and the result slot of every function call has been written.
C10_ReturnsAfterJoin ==
    epc \in {"convert", "returned"} =>
        \A i \in 1..Len(toolCalls) :
            /\ upc[i] \in {"none", "exited"}
            /\ toolCalls[i].kind = "function" => (upc[i] = "exited" /\ i \in written)

C10_Witness ==
    /\ epc = "returned"
    /\ Len(toolCalls) = 2
    /\ \A i \in 1..2 : toolCalls[i].kind = "function" /\ upc[i] = "exited"
    /\ results[1].Error = "context canceled"
    /\ results[2].Error = "nil"

\* The goroutines that have recorded their result and are on their way out.
Recorded == {i \in 1..Len(toolCalls) : upc[i] \in {"release", "done", "exited"}}

\* C11: cancellation is cooperative and loses no result: a goroutine that finds
\* the context cancelled at its check does not enter the tool body and records a
\* failure carrying its own call id, which renders as "Error: ..."; a goroutine
\* that passed the check runs the tool body and records the tool's own output or
\* error, even when the context is cancelled meanwhile.
C11_CancellationCooperative ==
    \A i \in Recorded :
        /\ i \in written
        /\ i \notin invoked =>
              /\ cancelled
              /\ results[i].Error = "context canceled"
              /\ results[i].CallID = toolCalls[i].id
              /\ Head(Content(results[i])) = "Error: "
        /\ i \in invoked =>
              /\ results[i].Output = ExecuteTool(toolCalls[i].name).Output
              /\ results[i].Error = ExecuteTool(toolCalls[i].name).Error
              /\ results[i].CallID = toolCalls[i].id

C11_Witness ==
    /\ epc = "returned"
    /\ Len(toolCalls) = 2
    /\ invoked = {1} /\ Recorded = {1, 2}
    /\ results[1].Output = "done" /\ results[1].Error = "nil"
    /\ results[2].Error = "context canceled" /\ results[2].CallID = 2
    /\ messages = <<ToolMessage(<<"done">>, 1),
                    ToolMessage(<<"Error: ", "context canceled">>, 2)>>

\* The calls that fail on their own account: an unsupported kind, an unregistered
\* tool name, or a tool body that returns an error.
Failing ==
    {i \in 1..Len(toolCalls) :
        \/ toolCalls[i].kind # "function"
        \/ ExecuteTool(toolCalls[i].name).Error # "nil"}

\* C12: every per-call failure is absorbed into that call's message: when
\* ExecuteToolCalls returns, its error is nil and each failing call has a tool
\* message that carries the call's id and whose text starts with "Error: ".
C12_FailuresAbsorbed ==
    epc = "returned" =>
        /\ retErr = "nil"
        /\ \A i \in Failing :
              \E j \in 1..Len(messages) :
                  /\ messages[j].id = toolCalls[i].id
                  /\ Head(messages[j].content) = "Error: "

\* C13: ExecuteToolCalls returns a nil error for every input, and for an empty
\* batch it returns no message and has started no goroutine: nothing was added to
\* the WaitGroup, no semaphore token was taken and no tool body was entered.
C13_NilError ==
    /\ retErr \in {"none", "nil"}
    /\ epc = "returned" => retErr = "nil"
    /\ Len(toolCalls) = 0 =>
          /\ messages = <<>>
          /\ wg = 0 /\ semaphore = 0 /\ invoked = {} /\ written = {}

C13_Witness ==
    /\ epc = "returned"
    /\ toolCalls = <<>>
    /\ cancelled
    /\ retErr = "nil" /\ messages = <<>>

(* ------------------------- claims about Agent.Run ----------------------- *)
\* C14: in every context sent to the inference client, whatever the memory
\* capacity, each tool message is preceded (with only tool messages of its batch
\* in between) by the assistant message carrying the tool call with its id.
C14_ToolMessagesPaired ==
    LET ctx == request.Messages
    IN  \A p \in 1..Len(ctx) :
            ctx[p].role = "tool" =>
                \E q \in 1..(p - 1) :
                    /\ ctx[q].role = "assistant"
                    /\ \A j \in (q + 1)..(p - 1) : ctx[j].role = "tool"
                    /\ \E c \in 1..Len(ctx[q].calls) : ctx[q].calls[c].id = ctx[p].id

\* C15: when the follow-up inference call is made, Run has appended exactly k tool
\* messages for the reply's k tool calls, one for each call id and none for any
\* other id; with an unbounded memory they are the history's last k entries, right
\* after the assistant reply.
C15_OneToolMessagePerCall ==
    (followup /\ rpc \in {"call", "infer"}) =>
        LET k == Len(reply)
            n == Len(history)
        IN  /\ Len(batch) = k
            /\ \A j \in 1..Len(batch) :
                   /\ batch[j].role = "tool"
                   /\ \E i \in 1..k : reply[i].id = batch[j].id
            /\ \A i \in 1..k :
                   Cardinality({j \in 1..Len(batch) : batch[j].id = reply[i].id}) = 1
            /\ agent.maxHistory = 0 =>
                   /\ n > k
                   /\ SubSeq(history, n - k + 1, n) = batch
                   /\ history[n - k].role = "assistant"
                   /\ history[n - k].calls = reply

\* A follow-up call after a reply mixing a registered tool that fails, an
\* unknown tool name and a custom call.
C15_Witness ==
    /\ followup
    /\ rpc = "infer"
    /\ Len(reply) = 3
    /\ reply[1].kind = "function"
    /\ reply[1].name \in agent.toolIndex
    /\ rresults[1].err # "nil"
    /\ reply[2].kind = "function"
    /\ reply[2].name \notin agent.toolIndex
    /\ reply[3].kind = "custom"

\* C16: the step of Run that reads an empty user input appends nothing to Memory,
\* issues no inference call and leaves Run asking for the next input.
C16_EmptyInputChangesNothing ==
    [][(rpc = "input" /\ reads' = reads + 1 /\ userInput' = "") =>
          /\ history' = history
          /\ infers' = infers
          /\ inflight' = inflight
          /\ request' = request
          /\ rpc' = "input"]_vars

\* An empty input has been read after a turn that left messages in Memory.
C16_Witness ==
    /\ userInput = ""
    /\ rpc = "input"
    /\ reads = 2
    /\ infers > 0
    /\ history # <<>>

\* C17: within a turn, a reply carrying tool calls is followed, without reading
\* user input, by an inference call whose context contains that assistant reply
\* and, right after it, its tool messages; user input is read only when the last
\* reply carried no tool calls, and such a reply starts no tool execution.
C17_FollowUpAfterToolCalls ==
    [][/\ rpc \in {"dispatch", "wait", "collect"} =>
             /\ rpc' \in {"dispatch", "wait", "collect", "call"}
             /\ rpc' = "call" => followup'
             /\ reads' = reads
       /\ (rpc = "call" /\ followup) =>
             /\ rpc' = "infer"
             /\ reads' = reads
             /\ LET ctx == request'.Messages
                    k == Len(reply)
                IN  \E q \in 1..(Len(ctx) - k) :
                        /\ ctx[q] = AssistantMessage(reply, infers)
                        /\ SubSeq(ctx, q + 1, q + k) = batch
       /\ reads' # reads => (rpc = "input" /\ reply = <<>>)
       /\ (rpc = "infer" /\ rpc' = "input") =>
             /\ reply' = <<>>
             /\ gpc' = <<>>
             /\ batch' = <<>>
             /\ reads' = reads]_vars

\* C18: once an inference call, the first of a turn or a follow-up, has returned
\* an error, Run has returned that error with no call outstanding, and nothing
\* happens afterwards: no inference call, no input read, no tool execution, no
\* append to Memory.
C18_InferenceErrorReturned ==
    [][/\ (rpc = "infer" /\ failed') =>
             /\ rpc' = "returned"
             /\ runErr' = "inference failed"
             /\ inflight' = 0
             /\ history' = history
       /\ failed =>
             /\ rpc' = "returned"
             /\ infers' = infers
             /\ reads' = reads
             /\ gpc' = gpc
             /\ history' = history]_vars

\* Run has returned the error of a follow-up call made after tool execution.
C18_Witness ==
    /\ failed
    /\ followup
    /\ rpc = "returned"
    /\ runErr = "inference failed"
    /\ \E i \in 1..Len(gpc) : gpc[i] = "exited"

\* C19: at most one inference call is outstanding, a call is outstanding exactly
\* while Run is inside runInference, and while one is outstanding no goroutine of
\* the batch is running: each has finished or was never started.
C19_InferenceSerialized ==
    /\ inflight <= 1
    /\ inflight = 1 <=> rpc = "infer"
    /\ inflight > 0 => \A i \in 1..Len(gpc) : gpc[i] \in {"none", "exited"}
    /\ rpc = "call" => \A i \in 1..Len(gpc) : gpc[i] \in {"none", "exited"}

\* The follow-up call is outstanding after a batch of two goroutines.
C19_Witness ==
    /\ rpc = "infer"
    /\ followup
    /\ inflight = 1
    /\ Len(gpc) >= 2
    /\ gpc[1] = "exited"
    /\ gpc[2] = "exited"

\* C20: every inference request issued, the first of a turn and every follow-up,
\* carries the agent's whole tool list, one entry per tool definition it was
\* built with, and a message list that is not empty.
C20_RequestCarriesToolsAndMessages ==
    infers > 0 =>
        /\ request.Tools = agent.toolParams
        /\ request.Messages # <<>>
        /\ request.Messages = history \/ rpc # "infer"

\* A follow-up request of an agent built with two tools, sent after tool results.
C20_Witness ==
    /\ rpc = "infer"
    /\ followup
    /\ Len(agent.toolParams) = 2
    /\ Len(request.Tools) = 2
    /\ request.Messages[Len(request.Messages)].role = "tool"

\* C21: the step in which the input source signals the end of the input makes Run
\* return nil with no further inference call; Run that returns without an
\* inference error returns nil; and with finitely many inputs and finitely many
\* tool calls Run terminates.
C21_EndOfInputReturnsNil ==
    /\ [][(rpc = "input" /\ reads' = reads) =>
              /\ rpc' = "returned"
              /\ runErr' = "nil"
              /\ infers' = infers
              /\ inflight' = 0
              /\ history' = history]_vars
    /\ [][rpc = "returned" => infers' = infers]_vars
    /\ []((rpc = "returned" /\ ~failed) => runErr = "nil")
    /\ <>(rpc = "returned")

\* Run has returned nil after the inputs ran out, having made tool calls.
C21_Witness ==
    /\ rpc = "returned"
    /\ runErr = "nil"
    /\ reads = MaxReads
    /\ received > 0
    /\ infers > 1

\* C22: a tool call naming an unregistered tool does not abort the run: its step
\* appends to Memory a tool message saying "not found" with the call's id and Run
\* goes on, and the follow-up inference call's context contains that message.
C22_UnknownToolRecorded ==
    [][/\ (rpc = "dispatch" /\ ridx' # ridx /\ reply[ridx].kind = "function"
           /\ reply[ridx].name \notin agent.toolIndex) =>
             LET msg == ToolMessage(<<"Error: ", "tool not found">>, reply[ridx].id)
             IN  /\ rpc' \in {"dispatch", "wait"}
                 /\ runErr' = "none"
                 /\ batch' = Append(batch, msg)
                 /\ history' # <<>>
                 /\ history'[Len(history')] = msg
       /\ (rpc = "call" /\ followup) =>
             /\ rpc' = "infer"
             /\ \A i \in 1..Len(reply) :
                    (reply[i].kind = "function" /\ reply[i].name \notin agent.toolIndex) =>
                        \E p \in 1..Len(request'.Messages) :
                            request'.Messages[p] =
                                ToolMessage(<<"Error: ", "tool not found">>, reply[i].id)]_vars

(* ----------------------- claims about ReasoningChain -------------------- *)
\* C23: Execute issues at most maxSteps inference calls, one per recorded step
\* besides the call outstanding or failed; when Execute has returned and every
\* reply carried tool calls, it issued exactly maxSteps calls and returned the
\* exceeded-maximum-steps error with an empty answer.
C23_StepCap ==
    /\ infers <= rc.maxSteps
    /\ infers = Len(rc.steps) + inflight + (IF failed THEN 1 ELSE 0)
    /\ (/\ rpc = "returned"
        /\ ~failed
        /\ \A i \in 1..Len(rc.steps) : Len(rc.steps[i].ToolCalls) > 0) =>
           /\ infers = rc.maxSteps
           /\ runErr = "exceeded maximum steps"
           /\ rc.answer = <<>>

\* Execute has returned after two replies that both carried tool calls.
C23_Witness ==
    /\ rpc = "returned"
    /\ rc.maxSteps = 2
    /\ Len(rc.steps) = 2
    /\ Len(rc.steps[1].ToolCalls) > 0
    /\ Len(rc.steps[2].ToolCalls) > 0
    /\ runErr = "exceeded maximum steps"

\* C24: every recorded step whose reply carried at least one tool call has the
\* type "action", whatever the reply's text.
C24_ToolCallsAreAction ==
    \A i \in 1..Len(rc.steps) :
        Len(rc.steps[i].ToolCalls) > 0 => rc.steps[i].Type = "action"

\* C25: Execute's first step leaves the system prefix as it is and the history
\* holding the new user message alone, whatever the history held before, and the
\* context of its first inference call is the system prefix followed by that
\* message.
C25_FirstContext ==
    [][/\ rpc = "start" =>
             /\ system' = system
             /\ history' = <<UserMessage(1)>>
       /\ (rpc = "call" /\ infers = 0) =>
             /\ rpc' = "infer"
             /\ system' = system
             /\ request'.Messages = system \o <<UserMessage(1)>>]_vars

\* The first inference call of an Execute on a memory with a system prefix.
C25_Witness ==
    /\ rpc = "infer"
    /\ infers = 1
    /\ system # <<>>
    /\ agent.maxHistory = 1
    /\ Len(request.Messages) = 2

(* ------------------- claims about Registry and EditFile ----------------- *)
\* C26: a Register call stores its definition when the name is not yet present and
\* returns nil; when the name is present it returns an error and leaves the
\* registry, and so its count, unchanged; hence the registry holds the names
\* passed to Register so far, each with the first definition passed under it.
C26_RegisterFirstWins ==
    /\ [][regLog' # regLog =>
              LET tool == tret'.in
              IN  /\ tret'.op = "Register"
                  /\ regLog' = Append(regLog, tool)
                  /\ tool.Name \in DOMAIN registry =>
                         /\ tret'.err # "nil"
                         /\ registry' = registry
                         /\ Cardinality(DOMAIN registry') = Cardinality(DOMAIN registry)
                  /\ tool.Name \notin DOMAIN registry =>
                         /\ tret'.err = "nil"
                         /\ DOMAIN registry' = DOMAIN registry \cup {tool.Name}
                         /\ registry'[tool.Name] = tool
                         /\ \A n \in DOMAIN registry : registry'[n] = registry[n]]_vars
    /\ [](/\ DOMAIN registry = {regLog[i].Name : i \in 1..Len(regLog)}
          /\ \A i \in 1..Len(regLog) :
                 (\A j \in 1..(i - 1) : regLog[j].Name # regLog[i].Name) =>
                     registry[regLog[i].Name] = regLog[i])

\* A second definition has been offered under a name already registered.
C26_Witness ==
    /\ Len(regLog) = 2
    /\ regLog[1].Name = regLog[2].Name
    /\ regLog[1] # regLog[2]
    /\ tret.op = "Register"
    /\ tret.err = "already registered"

\* C27: a Get call returns nil error and leaves the registry unchanged, and reports
\* found with the stored definition exactly when the name is registered; an
\* ExecuteTool call on an unregistered name returns the "tool '<name>' not found"
\* error, runs no tool function and leaves the files alone; on a registered name
\* it runs that definition's function and returns the function's results.
C27_GetAndExecuteTool ==
    [][/\ (tret' # tret /\ tret'.op = "Get") =>
             /\ registry' = registry
             /\ fs' = fs
             /\ tret'.err = "nil"
             /\ tret'.out.exists <=> tret'.in \in DOMAIN registry
             /\ tret'.in \in DOMAIN registry => tret'.out.tool = registry[tret'.in]
       /\ (tret' # tret /\ tret'.op = "ExecuteTool") =>
             LET name == tret'.in.name
             IN  /\ registry' = registry
                 /\ name \notin DOMAIN registry =>
                        /\ tret'.err = <<"tool '", name, "' not found">>
                        /\ tret'.out = ""
                        /\ tret'.fn = "none"
                        /\ fs' = fs
                 /\ name \in DOMAIN registry =>
                        LET fn == registry[name].Function
                            res == IF fn = "EditFile" THEN EditFile(fs, tret'.in.args)
                                   ELSE [fs |-> fs, out |-> Registry[fn].Output,
                                         err |-> Registry[fn].Error]
                        IN  /\ tret'.fn = fn
                            /\ tret'.out = res.out
                            /\ tret'.err = res.err
                            /\ fs' = res.fs]_vars

\* ExecuteTool has been called with a name that is not among the two registered.
C27_Witness ==
    /\ tret.op = "ExecuteTool"
    /\ tret.in.name = "missing"
    /\ DOMAIN registry = {"edit_file", "ok"}
    /\ tret.fn = "none"

\* C28: every EditFile call with a non-empty path and old_str different from
\* new_str on a path that names no file leaves a file at that path.
C28_MissingFileCreated ==
    [][(/\ tret' # tret
        /\ tret'.op = "ExecuteTool"
        /\ tret'.fn = "EditFile"
        /\ tret'.in.args.path # ""
        /\ tret'.in.args.old # tret'.in.args.new
        /\ tret'.in.args.path \notin DOMAIN fs)
           => tret'.in.args.path \in DOMAIN fs']_vars

\* C29: an EditFile call with a non-empty old_str changes the files only when
\* the path is non-empty, old_str differs from new_str and old_str occurs exactly
\* once in the file: then the file holds its old content with that occurrence
\* replaced by new_str, every other file is as before and the result is "OK";
\* when old_str occurs zero times or more than once, equals new_str, or the path
\* is empty, the call returns an error with an empty result and changes no file.
\* Occurrences are counted without overlap, as strings.Count counts them.
C29_EditOnlyOnSingleMatch ==
    [][(/\ tret' # tret
        /\ tret'.op = "ExecuteTool"
        /\ tret'.fn = "EditFile"
        /\ tret'.in.args.old # <<>>) =>
           LET in == tret'.in.args
               old == IF in.path \in DOMAIN fs THEN fs[in.path] ELSE <<>>
               \* start positions of old_str in the old content
               At == {i \in 1..(Len(old) - Len(in.old) + 1) :
                          SubSeq(old, i, i + Len(in.old) - 1) = in.old}
               \* the leftmost-first choice of non-overlapping occurrences
               single == /\ At # {}
                         /\ \A i \in At : \A j \in At : i < j => j < i + Len(in.old)
               valid == in.path # "" /\ in.old # in.new
           IN  IF valid /\ single
               THEN LET i == CHOOSE k \in At : \A j \in At : k <= j
                    IN  /\ tret'.out = "OK"
                        /\ tret'.err = "nil"
                        /\ DOMAIN fs' = DOMAIN fs
                        /\ fs'[in.path] = SubSeq(old, 1, i - 1) \o in.new
                                             \o SubSeq(old, i + Len(in.old), Len(old))
                        /\ \A q \in DOMAIN fs \ {in.path} : fs'[q] = fs[q]
               ELSE /\ tret'.err # "nil"
                    /\ tret'.out = ""
                    /\ fs' = fs]_vars

\* EditFile has replaced the single occurrence of a non-empty old_str.
C29_Witness ==
    /\ tret.op = "ExecuteTool"
    /\ tret.fn = "EditFile"
    /\ tret.in.args.old # <<>>
    /\ tret.out = "OK"
    /\ tret.in.args.path \in DOMAIN fs
    /\ Len(fs[tret.in.args.path]) = MaxFile

\* C30: after NewAgent on any list of tool definitions, toolParams has one entry
\* per definition, toolIndex has one entry per definition, and every definition
\* of the list is found in the index under its name.
C30_ToolCachesPerDefinition ==
    tret.op = "NewAgent" =>
        /\ Len(tret.out.toolParams) = Len(tret.in)
        /\ Cardinality(tret.out.toolIndex) = Len(tret.in)
        /\ \A i \in 1..Len(tret.in) : tret.in[i] \in tret.out.toolIndex

(* ----------------------- further claims about Memory ------------------- *)
\* C36: a Memory whose maxHistory is not positive drops nothing: every operation
\* that leaves it with such a maxHistory (Append, AppendMany, TrimTo(n <= 0))
\* keeps the history it had and adds the messages appended, in order, at its
\* end; so a Memory made by NewMemory(n <= 0) and neither trimmed nor reset since
\* holds every message appended to it.
C36_UnboundedKeepsAll ==
    /\ [][(lastOp' = "mutation" /\ m'.maxHistory <= 0 /\ System' = System) =>
              History' = History \o [i \in 1..(next' - next) |-> next + i - 1]]_vars
    /\ []((fresh /\ m.maxHistory <= 0) => History = log)

\* After TrimTo with a negative bound the history holds more messages than the
\* largest positive bound.
C36_Witness ==
    /\ lastOp = "mutation"
    /\ m.maxHistory < 0
    /\ Len(History) > MaxCap
    /\ Len(System) > 0

(* ---------------------- further claims about Agent.Run ------------------ *)
\* C31: when the follow-up call is made, the tool messages appended to Memory for
\* the reply stand in the same relative order as the reply's tool calls: of two
\* messages, the one appended first answers the call that comes first.
C31_ToolMessagesInCallOrder ==
    (followup /\ rpc \in {"call", "infer"}) =>
        LET Pos(id) == CHOOSE i \in 1..Len(reply) : reply[i].id = id
        IN  \A j1 \in 1..Len(batch) : \A j2 \in 1..Len(batch) :
                j1 < j2 => Pos(batch[j1].id) < Pos(batch[j2].id)

\* C34: Run empties the history in its first step and in no other: every later
\* step leaves the messages the history held as they were, in order, at the front
\* of the new history, save the oldest ones, which go only when the new history
\* is full to the capacity; each inference call's context is the whole history;
\* so with an unbounded memory the context of a call holds the assistant replies
\* of all earlier calls of the run, in order.
C34_HistoryClearedOnce ==
    /\ [][/\ rpc = "start" => (history' = <<>> /\ rpc' # "start")
          /\ rpc # "start" =>
                /\ rpc' # "start"
                /\ \E d \in 0..Len(history) :
                       LET kept == SubSeq(history, d + 1, Len(history))
                       IN  /\ Len(history') >= Len(kept)
                           /\ SubSeq(history', 1, Len(kept)) = kept
                           /\ d > 0 => Len(history') = agent.maxHistory
          /\ rpc = "call" => request'.Messages = history]_vars
    /\ []((rpc = "infer" /\ agent.maxHistory = 0) =>
             LET ctx == request.Messages
             IN  \A j \in 1..(infers - 1) : \E p \in 1..Len(ctx) :
                     /\ ctx[p].role = "assistant"
                     /\ ctx[p].n = j
                     /\ j > 1 => \E q \in 1..(p - 1) :
                                     ctx[q].role = "assistant" /\ ctx[q].n = j - 1)

\* The first inference call of a second turn, on an unbounded memory: its context
\* starts with the first turn's user message and assistant reply.
C34_Witness ==
    /\ rpc = "infer"
    /\ ~followup
    /\ agent.maxHistory = 0
    /\ infers = 2
    /\ Len(request.Messages) = 3
    /\ request.Messages[1].role = "user"
    /\ request.Messages[2] = AssistantMessage(<<>>, 1)
    /\ request.Messages[3].role = "user"

\* C40: Run never panics on an inference reply: a reply without error and
\* without a choice, to the first call of a turn or to a follow-up call, makes no
\* read of Choices[0].
C40_ChoicesGuarded == rpc # "panicked"

(* ------------------ claims about the earlier Agent.Run ------------------ *)
\* C35: when the earlier Run makes the inference call that follows a reply's
\* tool calls, it has appended one tool message per call, in call order, each
\* carrying its call's id as tool-call id and, as content, the tool's result or
\* "Error: " and the error text.
C35_LegacyToolMessages ==
    (followup /\ rpc \in {"call", "infer"}) =>
        /\ Len(batch) = Len(reply)
        /\ Len(history) > Len(batch)
        /\ SubSeq(history, Len(history) - Len(batch) + 1, Len(history)) = batch
        /\ \A i \in 1..Len(reply) :
               LET known == /\ reply[i].kind = "function"
                            /\ \E j \in 1..Len(agent.toolParams) :
                                   agent.toolParams[j] = reply[i].name
                   err == IF known THEN Registry[reply[i].name].Error ELSE "tool not found"
               IN  /\ batch[i].role = "tool"
                   /\ batch[i].id = <<reply[i].id>>
                   /\ batch[i].content = IF err # "nil" THEN <<"Error: ", err>>
                                          ELSE <<Registry[reply[i].name].Output>>

(* -------------------- further claims about ReasoningChain --------------- *)
\* C32: in Execute, the step that receives a reply with tool calls does not
\* return, whatever the reply's text: it goes on to the next step; and when steps
\* remain, the next step issues an inference call whose context holds every tool
\* message the reply's tool calls produced, after the assistant message.
C32_ToolCallsNeverEndChain ==
    [][/\ (rpc = "infer" /\ Len(rc'.steps) > Len(rc.steps) /\ Len(reply') > 0) =>
             /\ rpc' = "call"
             /\ runErr' = "none"
             /\ rc'.answer = rc.answer
             /\ rc'.step = rc.step + 1
       /\ (rpc = "call" /\ followup /\ rc.step < rc.maxSteps) =>
             /\ rpc' = "infer"
             /\ LET ctx == request'.Messages
                IN  /\ \A j \in 1..Len(batch) : \E p \in 1..Len(ctx) : ctx[p] = batch[j]
                    /\ \A q \in 1..Len(ctx) : \A p \in 1..Len(ctx) :
                           (/\ ctx[q] = AssistantMessage(reply, infers)
                            /\ \E j \in 1..Len(batch) : ctx[p] = batch[j]) => q < p]_vars

\* C37: in Execute, a reply without tool calls whose lower-cased text does not
\* contain "let me" ends the chain at that step and its text is the answer
\* returned, whatever its length and whatever other action words it holds; a
\* reply without tool calls after which the chain goes on contains "let me" and
\* none of "final answer", "answer:", "conclusion:".
C37_NoToolCallsEndsUnlessLetMe ==
    [][(rpc = "infer" /\ Len(rc'.steps) > Len(rc.steps) /\ reply' = <<>>) =>
          LET content == rc'.last
              lower == ToLower(content)
              letMe == Contains(lower, "let me")
              marker == \/ Contains(lower, "final answer")
                        \/ Contains(lower, "answer:")
                        \/ Contains(lower, "conclusion:")
          IN  /\ ~letMe =>
                     /\ rpc' = "returned"
                     /\ runErr' = "nil"
                     /\ rc'.answer = content
              /\ rpc' # "returned" =>
                     /\ rpc' = "call"
                     /\ letMe
                     /\ ~marker]_vars

\* Execute has returned an empty reply without tool calls as its answer.
C37_Witness ==
    /\ rpc = "returned"
    /\ runErr = "nil"
    /\ Len(rc.steps) = 2
    /\ rc.steps[2].ToolCalls = <<>>
    /\ rc.last = <<>>
    /\ rc.answer = <<>>

\* C38: over several Execute calls on one chain, the step that receives an
\* inference reply adds exactly one step, for that reply, at the end of rc.steps
\* and keeps the steps before it; a Reset call empties rc.steps; no other step,
\* the entry of Execute included, changes rc.steps; maxSteps never changes and
\* does not bound the length of rc.steps.
C38_StepsAccumulate ==
    [][LET replied == rpc = "infer" /\ inflight' < inflight /\ ~failed'
           n == Len(rc.steps)
       IN  /\ replied =>
                  /\ Len(rc'.steps) = n + 1
                  /\ SubSeq(rc'.steps, 1, n) = rc.steps
                  /\ rc'.steps[n + 1].ToolCalls = reply'
           /\ (~replied /\ rc'.steps # rc.steps) =>
                  /\ rc'.steps = <<>>
                  /\ rpc = "returned"
                  /\ runVars' = runVars
           /\ rpc = "start" => rc'.steps = rc.steps
           /\ rc'.maxSteps = rc.maxSteps]_vars

\* The second Execute call on a chain with maxSteps 1 has returned and the chain
\* holds the steps of both calls.
C38_Witness ==
    /\ rpc = "returned"
    /\ reads = 1
    /\ rc.maxSteps = 1
    /\ Len(rc.steps) = 2
    /\ rc.steps[1].ToolCalls # <<>>
    /\ rc.steps[2].ToolCalls = <<>>
    /\ runErr = "nil"

(* ------------------- further claims about ExecuteToolCalls -------------- *)
\* C33: with every goroutine scheduled and every tool body returning,
\* ExecuteToolCalls returns for every batch and worker limit, whenever the
\* context is cancelled or not at all; at the return every goroutine started has
\* exited, no slot is held and the WaitGroup counter is zero; and a goroutine
\* exits only after it has got a slot and given it back.
C33_AlwaysTerminates ==
    /\ <>(epc = "returned")
    /\ [](epc = "returned" =>
             /\ semaphore = 0
             /\ wg = 0
             /\ \A i \in 1..Len(toolCalls) :
                    upc[i] = (IF toolCalls[i].kind = "function" THEN "exited" ELSE "none"))
    /\ [][\A i \in 1..Len(upc) :
             /\ (upc[i] = "acquire" /\ upc'[i] # "acquire") =>
                    (upc'[i] = "check" /\ semaphore' = semaphore + 1)
             /\ (upc[i] # "release" /\ upc'[i] = "release") => upc[i] \in {"check", "running"}
             /\ (upc[i] = "release" /\ upc'[i] # "release") =>
                    (upc'[i] = "done" /\ semaphore' = semaphore - 1)
             /\ (upc[i] # "exited" /\ upc'[i] = "exited") => upc[i] = "done"]_vars

\* A batch of two function calls on one worker has returned; the context was
\* cancelled after the first tool had started and before the second got its slot.
C33_Witness ==
    /\ epc = "returned"
    /\ cancelled
    /\ maxWorkers = 1
    /\ Len(toolCalls) = 2
    /\ invoked = {1}
    /\ upc = <<"exited", "exited">>

\* C39: a RegisterBuiltinTools call tries read_file, list_files, bash, edit_file
\* and code_search in that order. When the registry holds none of the five names
\* it returns nil and the registry holds five more tools (five in all when it was
\* empty). When it holds some of them it returns the error of the first such
\* name in the list: the names listed before it are registered by then and stay
\* so, those listed after it are left as they were, and no definition stored
\* before the call is changed.
C39_BuiltinsStopAtFirstError ==
    [][(regLog' # regLog /\ tret'.op = "RegisterBuiltinTools") =>
          LET names == <<"read_file", "list_files", "bash", "edit_file", "code_search">>
              dups == {i \in 1..5 : names[i] \in DOMAIN registry}
          IN  /\ \A n \in DOMAIN registry : registry'[n] = registry[n]
              /\ dups = {} =>
                     /\ tret'.err = "nil"
                     /\ DOMAIN registry' = DOMAIN registry \cup {names[i] : i \in 1..5}
                     /\ Cardinality(DOMAIN registry') = Cardinality(DOMAIN registry) + 5
                     /\ \A i \in 1..5 : registry'[names[i]].Name = names[i]
              /\ dups # {} =>
                     LET d == CHOOSE i \in dups : \A j \in dups : i <= j
                     IN  /\ tret'.err # "nil"
                         /\ DOMAIN registry' =
                                DOMAIN registry \cup {names[i] : i \in 1..(d - 1)}
                         /\ \A i \in (d + 1)..5 :
                                names[i] \in DOMAIN registry' <=> names[i] \in DOMAIN registry]_vars

\* RegisterBuiltinTools has failed on edit_file, registered before with another
\* function: the three tools listed before it are registered, code_search is not.
C39_Witness ==
    /\ tret.op = "RegisterBuiltinTools"
    /\ tret.err # "nil"
    /\ DOMAIN registry = {"read_file", "list_files", "bash", "edit_file"}
    /\ registry["edit_file"].Function = "fail"

====
